---- MODULE Spec2Model ----
(***************************************************************************)
(* A model of the cl-utils library (mlclut.c, mlclut_images.c): the        *)
(* probe/allocate/fetch/verify attribute queries, the program builder      *)
(* with its build-log printers, and the image load/save bridge.            *)
(*                                                                         *)
(* The library is single-threaded.  Every public function is a small       *)
(* state machine: one step per call to the OpenCL platform, to a codec or  *)
(* to the allocator, whose answer is chosen by the environment.  `calls`   *)
(* logs every such call of the running top-level invocation in order, and  *)
(* `heap` holds every resource it acquired with the releases it received.  *)
(***************************************************************************)
EXTENDS Integers, Sequences, FiniteSets, TLC

\* ---------------------------------------------------------------- bounds
MaxSize == 2          \* attribute sizes 0..MaxSize (plus the two of SpecSizes)
MaxDevices == 2       \* devices a program is associated with
MaxLines == 1         \* source fragments the tokenizer yields
MaxDim == 2           \* image width and height
MaxFlags == 2         \* length of the caller's build flags
MaxInfos == 2         \* leading handles of an info list that are printed

\* ------------------------------------------------------------- constants
NULL == 0
CL_SUCCESS == "CL_SUCCESS"
CL_OUT_OF_RESOURCES == "CL_OUT_OF_RESOURCES"

\* The status codes the platform answers with: success and one failure.
Statuses == {CL_SUCCESS, CL_OUT_OF_RESOURCES}
\* The sizes a two-phase query may report; 16 and 12 are the sizes of the
\* specification's size-mismatch example.
SpecSizes == {12, 16}
Sizes == (0..MaxSize) \cup SpecSizes

VARIABLES
  pc,      \* position of the running function ("idle", "done", or a label)
  stack,   \* return labels of the callers of the running function
  calls,   \* the external calls made so far by the top-level invocation
  heap,    \* the resources acquired so far: [site, rel], rel the releases
  q,       \* frame of the running two-phase attribute query
  pb,      \* frame of clut_printProgramBuildLog
  cp,      \* frame of clut_createProgramFromFile
  ld,      \* frame of clut_loadImageFromFile
  sv,      \* frame of clut_saveImageToFile
  dp,      \* frame of clut_getDuplicateEmptyImage
  pi,      \* frame of clut_printDeviceInfos / clut_printPlatformInfos
  pr,      \* frame of the typed printer that ran last: its value and output
  ga       \* frame of clut_getAllPlatforms / clut_getAllDevices

vars == <<pc, stack, calls, heap, q, pb, cp, ld, sv, dp, pi, pr, ga>>

\* ------------------------------------------------------- shared helpers
clut_returnSuccess(value) == CL_SUCCESS = value

\* One external call appended to the log: its name, status, arguments.
Event(c, f, st, a) == Append(c, [f |-> f, st |-> st, a |-> a])

\* A resource acquired from `site` by function `who`; the pointer to it is
\* its index in the heap.
Acquire(h, site, who) ==
  Append(h, [site |-> site, who |-> who, rel |-> <<>>])
\* The release function `by` applied to pointer p (free(NULL) does nothing).
Release(h, p, by) ==
  IF p = NULL THEN h ELSE [h EXCEPT ![p].rel = Append(@, by)]
\* free(p) on the pair [h |-> heap, c |-> calls]: released and logged.
Free(s, p) ==
  [h |-> Release(s.h, p, "free"),
   c |-> Event(s.c, "free", CL_SUCCESS, [p |-> p])]

Idle == pc \in {"idle", "done"}
\* Where a returning function continues: its caller, or the end of the call.
RetPc == IF stack = <<>> THEN "done" ELSE Head(stack)
RetStack == IF stack = <<>> THEN <<>> ELSE Tail(stack)

\* ------------------------------------------------------------ C strings
\* A string is the sequence of its characters; a buffer is a sequence of
\* bytes, each a character or NUL.
NUL == ""
strlen(str) ==
  IF \E i \in DOMAIN str : str[i] = NUL
  THEN (CHOOSE i \in DOMAIN str :
          str[i] = NUL /\ \A j \in 1..(i - 1) : str[j] # NUL) - 1
  ELSE Len(str)
\* calloc(size, 1): size bytes, all zero.
calloc(size) == [i \in 1..size |-> NUL]
\* sprintf(buf + off, "%s", str): the characters of str and a closing NUL
\* written from byte off on; oob tells that a byte fell outside the buffer.
sprintf(buf, off, str) ==
  LET out == str \o <<NUL>>
  IN [buf |-> [i \in DOMAIN buf |->
                 IF i > off /\ i <= off + Len(out) THEN out[i - off]
                 ELSE buf[i]],
      oob |-> off + Len(out) > Len(buf)]
\* The string a buffer holds: its bytes before the first NUL.
CString(buf) == SubSeq(buf, 1, strlen(buf))
\* StringUtils_clone(str): a fresh buffer holding a copy of str.
StringUtils_clone(str) == str \o <<NUL>>

BUILD_OPTS ==
  <<"-", "c", "l", "-", "s", "t", "d", "=", "C", "L", "1", ".", "2", " ",
    "-", "c", "l", "-", "k", "e", "r", "n", "e", "l", "-", "a", "r", "g",
    "-", "i", "n", "f", "o", " ", "-", "W", "e", "r", "r", "o", "r", " ">>
\* The flags strings a caller passes: the prefixes of "-g -O".
FlagStrings == {SubSeq(<<"-", "g", " ", "-", "O">>, 1, n) : n \in 0..MaxFlags}

\* ------------------------------------------------------- initial frames
InitQ == [fn |-> "none", info |-> "none", size |-> FALSE, device |-> 0,
          ret |-> CL_SUCCESS,
          res_size |-> 0, res_size_check |-> 0, result |-> NULL,
          probed |-> FALSE, fetched |-> FALSE, returned |-> FALSE,
          retval |-> NULL, out |-> <<>>, base |-> 0, hbase |-> 0]
InitPB == [active |-> FALSE]
InitCP == [active |-> FALSE]
InitLD == [active |-> FALSE]
InitSV == [active |-> FALSE]
InitDP == [active |-> FALSE]
InitPI == [active |-> FALSE]
InitPR == [active |-> FALSE]
InitGA == [active |-> FALSE]

Init ==
  /\ pc = "idle"
  /\ stack = <<>>
  /\ calls = <<>>
  /\ heap = <<>>
  /\ q = InitQ
  /\ pb = InitPB
  /\ cp = InitCP
  /\ ld = InitLD
  /\ sv = InitSV
  /\ dp = InitDP
  /\ pi = InitPI
  /\ pr = InitPR
  /\ ga = InitGA

\* A query frame at entry: `size` says whether the caller's size pointer is
\* non-null; base and hbase remember where this query's calls and
\* allocations start in the log and in the heap.
NewQ(fn, size, device, c, h) ==
  [InitQ EXCEPT !.fn = fn, !.size = size, !.device = device,
                !.base = Len(c), !.hbase = Len(h)]

\* ------------------------------------------------- clut_getDeviceInfo
\* Faulty variant: only a negative size is rejected.
gdi_invalidSize_negative(res_size) == 0 > res_size
gdi_invalidSize(res_size) == 0 >= res_size
\* Faulty variant: only a fetch longer than the probe is a mismatch.
gdi_sizeChanged_longer(res_size, res_size_check) == res_size < res_size_check
gdi_sizeChanged(res_size, res_size_check) == res_size # res_size_check
\* Faulty variant: the clean label releases nothing.
gdi_clean_leak(s, result) == s
\* clean: free(result)
gdi_clean(s, result) == Free(s, result)

gdi_call ==
  /\ Idle
  /\ \E size \in BOOLEAN :
       q' = NewQ("clut_getDeviceInfo", size, 0, <<>>, <<>>)
  /\ pc' = "gdi_probe"
  /\ stack' = <<>> /\ calls' = <<>> /\ heap' = <<>>
  /\ pb' = InitPB /\ cp' = InitCP /\ ld' = InitLD /\ sv' = InitSV
  /\ dp' = InitDP /\ pi' = InitPI /\ pr' = InitPR /\ ga' = InitGA

gdi_probe ==
  /\ pc = "gdi_probe"
  /\ \E st \in Statuses, n \in Sizes :
       /\ calls' = Event(calls, "clGetDeviceInfo", st, [buf |-> NULL])
       /\ IF ~clut_returnSuccess(st)
          THEN /\ q' = [q EXCEPT !.ret = st, !.probed = TRUE,
                                 !.returned = TRUE, !.retval = NULL]
               /\ pc' = RetPc /\ stack' = RetStack
          ELSE IF gdi_invalidSize(n)
          THEN /\ q' = [q EXCEPT !.ret = st, !.probed = TRUE, !.res_size = n,
                                 !.returned = TRUE, !.retval = NULL]
               /\ pc' = RetPc /\ stack' = RetStack
          ELSE /\ q' = [q EXCEPT !.ret = st, !.probed = TRUE, !.res_size = n]
               /\ pc' = "gdi_alloc" /\ UNCHANGED stack
  /\ UNCHANGED <<heap, pb, cp, ld, sv, dp, pi, pr, ga>>

gdi_alloc ==
  /\ pc = "gdi_alloc"
  /\ \E ok \in BOOLEAN :
       IF ~ok
       THEN /\ q' = [q EXCEPT !.returned = TRUE, !.retval = NULL]
            /\ pc' = RetPc /\ stack' = RetStack
            /\ UNCHANGED heap
       ELSE /\ heap' = Acquire(heap, "calloc", "clut_getDeviceInfo")
            /\ q' = [q EXCEPT !.result = Len(heap) + 1]
            /\ pc' = "gdi_fetch" /\ UNCHANGED stack
  /\ UNCHANGED <<calls, pb, cp, ld, sv, dp, pi, pr, ga>>

gdi_fetch ==
  /\ pc = "gdi_fetch"
  /\ \E st \in Statuses, n \in Sizes :
       LET s1 == [h |-> heap,
                  c |-> Event(calls, "clGetDeviceInfo", st, [buf |-> q.result])]
       IN IF ~clut_returnSuccess(st)
          THEN /\ heap' = gdi_clean(s1, q.result).h
               /\ calls' = gdi_clean(s1, q.result).c
               /\ q' = [q EXCEPT !.ret = st, !.fetched = TRUE,
                                 !.returned = TRUE, !.retval = NULL]
          ELSE IF gdi_sizeChanged(q.res_size, n)
          THEN /\ heap' = gdi_clean(s1, q.result).h
               /\ calls' = gdi_clean(s1, q.result).c
               /\ q' = [q EXCEPT !.ret = st, !.fetched = TRUE,
                                 !.res_size_check = n,
                                 !.returned = TRUE, !.retval = NULL]
          ELSE /\ heap' = s1.h
               /\ calls' = s1.c
               /\ q' = [q EXCEPT !.ret = st, !.fetched = TRUE,
                                 !.res_size_check = n,
                                 !.out = IF q.size THEN <<q.res_size>> ELSE <<>>,
                                 !.returned = TRUE, !.retval = q.result]
  /\ pc' = RetPc /\ stack' = RetStack
  /\ UNCHANGED <<pb, cp, ld, sv, dp, pi, pr, ga>>

clut_getDeviceInfo == gdi_call \/ gdi_probe \/ gdi_alloc \/ gdi_fetch

\* ------------------------------------------------- clut_getPlatformInfo
gpi_invalidSize(res_size) == 0 >= res_size
gpi_sizeChanged(res_size, res_size_check) == res_size # res_size_check
\* clean: free(result)
gpi_clean(s, result) == Free(s, result)

gpi_call ==
  /\ Idle
  /\ \E size \in BOOLEAN :
       q' = NewQ("clut_getPlatformInfo", size, 0, <<>>, <<>>)
  /\ pc' = "gpi_probe"
  /\ stack' = <<>> /\ calls' = <<>> /\ heap' = <<>>
  /\ pb' = InitPB /\ cp' = InitCP /\ ld' = InitLD /\ sv' = InitSV
  /\ dp' = InitDP /\ pi' = InitPI /\ pr' = InitPR /\ ga' = InitGA

gpi_probe ==
  /\ pc = "gpi_probe"
  /\ \E st \in Statuses, n \in Sizes :
       /\ calls' = Event(calls, "clGetPlatformInfo", st, [buf |-> NULL])
       /\ IF ~clut_returnSuccess(st)
          THEN /\ q' = [q EXCEPT !.ret = st, !.probed = TRUE,
                                 !.returned = TRUE, !.retval = NULL]
               /\ pc' = RetPc /\ stack' = RetStack
          ELSE IF gpi_invalidSize(n)
          THEN /\ q' = [q EXCEPT !.ret = st, !.probed = TRUE, !.res_size = n,
                                 !.returned = TRUE, !.retval = NULL]
               /\ pc' = RetPc /\ stack' = RetStack
          ELSE /\ q' = [q EXCEPT !.ret = st, !.probed = TRUE, !.res_size = n]
               /\ pc' = "gpi_alloc" /\ UNCHANGED stack
  /\ UNCHANGED <<heap, pb, cp, ld, sv, dp, pi, pr, ga>>

gpi_alloc ==
  /\ pc = "gpi_alloc"
  /\ \E ok \in BOOLEAN :
       IF ~ok
       THEN /\ q' = [q EXCEPT !.returned = TRUE, !.retval = NULL]
            /\ pc' = RetPc /\ stack' = RetStack
            /\ UNCHANGED heap
       ELSE /\ heap' = Acquire(heap, "calloc", "clut_getPlatformInfo")
            /\ q' = [q EXCEPT !.result = Len(heap) + 1]
            /\ pc' = "gpi_fetch" /\ UNCHANGED stack
  /\ UNCHANGED <<calls, pb, cp, ld, sv, dp, pi, pr, ga>>

gpi_fetch ==
  /\ pc = "gpi_fetch"
  /\ \E st \in Statuses, n \in Sizes :
       LET s1 == [h |-> heap,
                  c |-> Event(calls, "clGetPlatformInfo", st, [buf |-> q.result])]
       IN IF ~clut_returnSuccess(st)
          THEN /\ heap' = gpi_clean(s1, q.result).h
               /\ calls' = gpi_clean(s1, q.result).c
               /\ q' = [q EXCEPT !.ret = st, !.fetched = TRUE,
                                 !.returned = TRUE, !.retval = NULL]
          ELSE IF gpi_sizeChanged(q.res_size, n)
          THEN /\ heap' = gpi_clean(s1, q.result).h
               /\ calls' = gpi_clean(s1, q.result).c
               /\ q' = [q EXCEPT !.ret = st, !.fetched = TRUE,
                                 !.res_size_check = n,
                                 !.returned = TRUE, !.retval = NULL]
          ELSE /\ heap' = s1.h
               /\ calls' = s1.c
               /\ q' = [q EXCEPT !.ret = st, !.fetched = TRUE,
                                 !.res_size_check = n,
                                 !.out = IF q.size THEN <<q.res_size>> ELSE <<>>,
                                 !.returned = TRUE, !.retval = q.result]
  /\ pc' = RetPc /\ stack' = RetStack
  /\ UNCHANGED <<pb, cp, ld, sv, dp, pi, pr, ga>>

clut_getPlatformInfo == gpi_call \/ gpi_probe \/ gpi_alloc \/ gpi_fetch

\* ------------------------------------- clut_printDeviceProgramBuildLog
dl_invalidSize(log_size) == 0 >= log_size
dl_sizeChanged(log_size, log_size_check) == log_size # log_size_check
\* clean: free(log)
dl_clean(s, log) == Free(s, log)

dl_probe ==
  /\ pc = "dl_probe"
  /\ \E st \in Statuses, n \in Sizes :
       /\ calls' = Event(calls, "clGetProgramBuildInfo", st,
                         [device |-> q.device, buf |-> NULL])
       /\ IF ~clut_returnSuccess(st)
          THEN /\ q' = [q EXCEPT !.ret = st, !.probed = TRUE,
                                 !.returned = TRUE]
               /\ pc' = RetPc /\ stack' = RetStack
          ELSE IF dl_invalidSize(n)
          THEN /\ q' = [q EXCEPT !.ret = st, !.probed = TRUE, !.res_size = n,
                                 !.returned = TRUE]
               /\ pc' = RetPc /\ stack' = RetStack
          ELSE /\ q' = [q EXCEPT !.ret = st, !.probed = TRUE, !.res_size = n]
               /\ pc' = "dl_alloc" /\ UNCHANGED stack
  /\ UNCHANGED <<heap, pb, cp, ld, sv, dp, pi, pr, ga>>

dl_alloc ==
  /\ pc = "dl_alloc"
  /\ \E ok \in BOOLEAN :
       IF ~ok
       THEN /\ q' = [q EXCEPT !.returned = TRUE]
            /\ pc' = RetPc /\ stack' = RetStack
            /\ UNCHANGED heap
       ELSE /\ heap' = Acquire(heap, "calloc", "clut_printDeviceProgramBuildLog")
            /\ q' = [q EXCEPT !.result = Len(heap) + 1]
            /\ pc' = "dl_fetch" /\ UNCHANGED stack
  /\ UNCHANGED <<calls, pb, cp, ld, sv, dp, pi, pr, ga>>

dl_fetch ==
  /\ pc = "dl_fetch"
  /\ \E st \in Statuses, n \in Sizes :
       LET c1 == Event(calls, "clGetProgramBuildInfo", st,
                       [device |-> q.device, buf |-> q.result])
           \* print log: printf("%s", log)
           c2 == Event(c1, "printf", CL_SUCCESS, [buf |-> q.result])
       IN IF ~clut_returnSuccess(st)
          THEN /\ heap' = dl_clean([h |-> heap, c |-> c1], q.result).h
               /\ calls' = dl_clean([h |-> heap, c |-> c1], q.result).c
               /\ q' = [q EXCEPT !.ret = st, !.fetched = TRUE,
                                 !.returned = TRUE]
          ELSE IF dl_sizeChanged(q.res_size, n)
          THEN /\ heap' = dl_clean([h |-> heap, c |-> c1], q.result).h
               /\ calls' = dl_clean([h |-> heap, c |-> c1], q.result).c
               /\ q' = [q EXCEPT !.ret = st, !.fetched = TRUE,
                                 !.res_size_check = n, !.returned = TRUE]
          ELSE /\ heap' = dl_clean([h |-> heap, c |-> c2], q.result).h
               /\ calls' = dl_clean([h |-> heap, c |-> c2], q.result).c
               /\ q' = [q EXCEPT !.ret = st, !.fetched = TRUE,
                                 !.res_size_check = n, !.returned = TRUE]
  /\ pc' = RetPc /\ stack' = RetStack
  /\ UNCHANGED <<pb, cp, ld, sv, dp, pi, pr, ga>>

clut_printDeviceProgramBuildLog == dl_probe \/ dl_alloc \/ dl_fetch

\* ------------------------------------------- clut_printProgramBuildLog
\* The frame at entry; `program` is the handle whose log is printed.
NewPB(program) ==
  [active |-> TRUE, program |-> program, n_devices |-> 0, devices |-> NULL,
   i |-> 0, listed |-> FALSE, returned |-> FALSE]

\* Faulty variant: the loop stops one device early.
pb_more_skipLast(i, n_devices) == i + 1 < n_devices
\* The loop test i < n_devices.
pb_more(i, n_devices) == i < n_devices
\* clean1: free(devices)
pb_clean1(s, devices) == Free(s, devices)

pb_call ==
  /\ Idle
  /\ heap' = Acquire(<<>>, "caller", "caller")     \* a program the caller owns
  /\ pb' = NewPB(1)
  /\ pc' = "pb_numdev"
  /\ stack' = <<>> /\ calls' = <<>>
  /\ q' = InitQ /\ cp' = InitCP /\ ld' = InitLD /\ sv' = InitSV
  /\ dp' = InitDP /\ pi' = InitPI /\ pr' = InitPR /\ ga' = InitGA

pb_numdev ==
  /\ pc = "pb_numdev"
  /\ \E st \in Statuses, n \in 0..MaxDevices :
       /\ calls' = Event(calls, "clGetProgramInfo", st,
                         [info |-> "CL_PROGRAM_NUM_DEVICES"])
       /\ IF ~clut_returnSuccess(st)
          THEN /\ pb' = [pb EXCEPT !.returned = TRUE]
               /\ pc' = RetPc /\ stack' = RetStack
          ELSE IF 0 >= n
          THEN /\ pb' = [pb EXCEPT !.n_devices = n, !.returned = TRUE]
               /\ pc' = RetPc /\ stack' = RetStack
          ELSE /\ pb' = [pb EXCEPT !.n_devices = n]
               /\ pc' = "pb_alloc" /\ UNCHANGED stack
  /\ UNCHANGED <<heap, q, cp, ld, sv, dp, pi, pr, ga>>

pb_alloc ==
  /\ pc = "pb_alloc"
  /\ \E ok \in BOOLEAN :
       IF ~ok
       THEN /\ pb' = [pb EXCEPT !.returned = TRUE]
            /\ pc' = RetPc /\ stack' = RetStack
            /\ UNCHANGED heap
       ELSE /\ heap' = Acquire(heap, "calloc", "clut_printProgramBuildLog")
            /\ pb' = [pb EXCEPT !.devices = Len(heap) + 1]
            /\ pc' = "pb_devices" /\ UNCHANGED stack
  /\ UNCHANGED <<calls, q, cp, ld, sv, dp, pi, pr, ga>>

pb_devices ==
  /\ pc = "pb_devices"
  /\ \E st \in Statuses :
       LET s1 == [h |-> heap,
                  c |-> Event(calls, "clGetProgramInfo", st,
                              [info |-> "CL_PROGRAM_DEVICES"])]
       IN IF ~clut_returnSuccess(st)
          THEN /\ heap' = pb_clean1(s1, pb.devices).h
               /\ calls' = pb_clean1(s1, pb.devices).c
               /\ pb' = [pb EXCEPT !.returned = TRUE]
               /\ pc' = RetPc /\ stack' = RetStack
          ELSE /\ heap' = s1.h
               /\ calls' = s1.c
               /\ pb' = [pb EXCEPT !.listed = TRUE, !.i = 0]
               /\ pc' = "pb_loop" /\ UNCHANGED stack
  /\ UNCHANGED <<q, cp, ld, sv, dp, pi, pr, ga>>

\* for (i = 0; i < n_devices; ++i): the loop test, then either the call of
\* clut_printDeviceProgramBuildLog(devices[i], program) or clean1 and return.
\* devices[i] is device i + 1.
pb_loop ==
  /\ pc = "pb_loop"
  /\ IF pb_more(pb.i, pb.n_devices)
     THEN /\ q' = NewQ("clut_printDeviceProgramBuildLog", FALSE, pb.i + 1,
                       calls, heap)
          /\ pc' = "dl_probe"
          /\ stack' = <<"pb_next">> \o stack
          /\ UNCHANGED <<heap, calls, pb>>
     ELSE /\ heap' = pb_clean1([h |-> heap, c |-> calls], pb.devices).h
          /\ calls' = pb_clean1([h |-> heap, c |-> calls], pb.devices).c
          /\ pb' = [pb EXCEPT !.returned = TRUE]
          /\ pc' = RetPc /\ stack' = RetStack
          /\ UNCHANGED q
  /\ UNCHANGED <<cp, ld, sv, dp, pi, pr, ga>>

pb_next ==
  /\ pc = "pb_next"
  /\ pb' = [pb EXCEPT !.i = pb.i + 1]
  /\ pc' = "pb_loop"
  /\ UNCHANGED <<stack, calls, heap, q, cp, ld, sv, dp, pi, pr, ga>>

clut_printProgramBuildLog ==
  pb_call \/ pb_numdev \/ pb_alloc \/ pb_devices \/ pb_loop \/ pb_next

\* ------------------------------------------ clut_createProgramFromFile
\* The cleanup labels work on the pair [h |-> heap, c |-> calls].
\* clean1: Array_free(&lines)
cp_clean1(s, f) ==
  [h |-> Release(s.h, f.lines, "Array_free"),
   c |-> Event(s.c, "Array_free", CL_SUCCESS, [p |-> f.lines])]
\* Faulty variant: clean2 falls through without releasing the program.
cp_clean2_noRelease(s, f) == cp_clean1(s, f)
\* clean2: clReleaseProgram(program), then clean1
cp_clean2(s, f) ==
  cp_clean1([h |-> Release(s.h, f.program, "clReleaseProgram"),
             c |-> Event(s.c, "clReleaseProgram", CL_SUCCESS,
                         [p |-> f.program])], f)
\* clean3: free(build_options), then clean2
cp_clean3(s, f) == cp_clean2(Free(s, f.build_options), f)
\* the success exit: free(build_options); Array_free(&lines)
cp_success(s, f) == cp_clean1(Free(s, f.build_options), f)

\* What clCreateProgramWithSource answers: a status and whether the handle
\* is non-null.  A failing call hands back no program object.
CreateAnswers ==
  {a \in [st : Statuses, handle : BOOLEAN] :
     ~clut_returnSuccess(a.st) => ~a.handle}

NewCP(file, flags) ==
  [active |-> TRUE, file |-> file, flags |-> flags, lines |-> NULL,
   nlines |-> 0, program |-> NULL, ret |-> CL_SUCCESS, created |-> FALSE,
   build_options |-> NULL, built |-> FALSE,
   returned |-> FALSE, retval |-> NULL,
   flags_str |-> <<>>, buffer |-> <<>>, oob |-> FALSE]

\* file and flags say whether the argument is a non-null pointer; str is
\* the string a non-null flags points to.
cp_call ==
  /\ Idle
  /\ \E file \in BOOLEAN, flags \in BOOLEAN, str \in FlagStrings :
       /\ flags \/ str = <<>>
       /\ IF ~file
          THEN /\ cp' = [NewCP(file, flags) EXCEPT !.flags_str = str,
                                                   !.returned = TRUE]
               /\ pc' = "done"
          ELSE /\ cp' = [NewCP(file, flags) EXCEPT !.flags_str = str]
               /\ pc' = "cp_parse"
  /\ stack' = <<>> /\ calls' = <<>> /\ heap' = <<>>
  /\ q' = InitQ /\ pb' = InitPB /\ ld' = InitLD /\ sv' = InitSV
  /\ dp' = InitDP /\ pi' = InitPI /\ pr' = InitPR /\ ga' = InitGA

cp_parse ==
  /\ pc = "cp_parse"
  /\ \E ok \in BOOLEAN, n \in 0..MaxLines :
       /\ calls' = Event(calls, "parseLines_array", CL_SUCCESS, [ok |-> ok])
       /\ IF ~ok
          THEN /\ cp' = [cp EXCEPT !.returned = TRUE]
               /\ pc' = RetPc /\ stack' = RetStack
               /\ UNCHANGED heap
          ELSE /\ heap' = Acquire(heap, "parseLines_array", "clut_createProgramFromFile")
               /\ cp' = [cp EXCEPT !.lines = Len(heap) + 1, !.nlines = n]
               /\ pc' = "cp_create" /\ UNCHANGED stack
  /\ UNCHANGED <<q, pb, ld, sv, dp, pi, pr, ga>>

cp_create ==
  /\ pc = "cp_create"
  /\ \E a \in CreateAnswers :
       LET h1 == IF a.handle
                 THEN Acquire(heap, "clCreateProgramWithSource", "clut_createProgramFromFile") ELSE heap
           f1 == [cp EXCEPT !.ret = a.st, !.created = TRUE,
                            !.program = IF a.handle THEN Len(h1) ELSE NULL]
           s1 == [h |-> h1,
                  c |-> Event(calls, "clCreateProgramWithSource", a.st,
                              [count |-> cp.nlines, p |-> f1.program])]
       IN IF ~clut_returnSuccess(a.st)
          THEN /\ heap' = cp_clean2(s1, f1).h
               /\ calls' = cp_clean2(s1, f1).c
               /\ cp' = [f1 EXCEPT !.returned = TRUE]
               /\ pc' = RetPc /\ stack' = RetStack
          ELSE IF NULL = f1.program
          THEN /\ heap' = cp_clean1(s1, f1).h
               /\ calls' = cp_clean1(s1, f1).c
               /\ cp' = [f1 EXCEPT !.returned = TRUE]
               /\ pc' = RetPc /\ stack' = RetStack
          ELSE /\ heap' = s1.h
               /\ calls' = s1.c
               /\ cp' = f1
               /\ pc' = "cp_opts" /\ UNCHANGED stack
  /\ UNCHANGED <<q, pb, ld, sv, dp, pi, pr, ga>>

\* build_options: calloc + two sprintf when flags is given, otherwise
\* StringUtils_clone(BUILD_OPTS); either allocation may fail.
\* Faulty variant: no byte reserved for the separator and the closing NUL.
cp_optsSize_short(flags) == strlen(BUILD_OPTS) + strlen(flags)
\* The size of the options buffer when flags is given.
cp_optsSize(flags) == strlen(BUILD_OPTS) + 1 + strlen(flags) + 1
\* The options buffer after the two sprintf calls.
cp_compose(flags) ==
  LET w1 == sprintf(calloc(cp_optsSize(flags)), 0, BUILD_OPTS \o <<" ">>)
      w2 == sprintf(w1.buf, strlen(BUILD_OPTS), flags)
  IN [buf |-> w2.buf, oob |-> w1.oob \/ w2.oob]

cp_opts ==
  /\ pc = "cp_opts"
  /\ \E ok \in BOOLEAN :
       LET site == IF cp.flags THEN "calloc" ELSE "StringUtils_clone"
           s0 == [h |-> heap, c |-> calls]
           w == IF cp.flags THEN cp_compose(cp.flags_str)
                ELSE [buf |-> StringUtils_clone(BUILD_OPTS), oob |-> FALSE]
       IN IF ~ok
          THEN /\ heap' = cp_clean2(s0, cp).h
               /\ calls' = cp_clean2(s0, cp).c
               /\ cp' = [cp EXCEPT !.returned = TRUE]
               /\ pc' = RetPc /\ stack' = RetStack
          ELSE /\ heap' = Acquire(heap, site, "clut_createProgramFromFile")
               /\ calls' = calls
               /\ cp' = [cp EXCEPT !.build_options = Len(heap) + 1,
                                   !.buffer = w.buf, !.oob = w.oob]
               /\ pc' = "cp_build" /\ UNCHANGED stack
  /\ UNCHANGED <<q, pb, ld, sv, dp, pi, pr, ga>>

cp_build ==
  /\ pc = "cp_build"
  /\ \E st \in Statuses :
       LET s1 == [h |-> heap,
                  c |-> Event(calls, "clBuildProgram", st,
                              [p |-> cp.program,
                               options |-> CString(cp.buffer)])]
           f1 == [cp EXCEPT !.ret = st, !.built = TRUE]
       IN IF ~clut_returnSuccess(st)
          THEN \* clut_printProgramBuildLog(program); goto clean3
               /\ heap' = s1.h
               /\ calls' = s1.c
               /\ cp' = f1
               /\ pb' = NewPB(cp.program)
               /\ pc' = "pb_numdev"
               /\ stack' = <<"cp_clean3">> \o stack
          ELSE /\ heap' = cp_success(s1, f1).h
               /\ calls' = cp_success(s1, f1).c
               /\ cp' = [f1 EXCEPT !.returned = TRUE,
                                   !.retval = cp.program]
               /\ pc' = RetPc /\ stack' = RetStack
               /\ UNCHANGED pb
  /\ UNCHANGED <<q, ld, sv, dp, pi, pr, ga>>

cp_fail ==
  /\ pc = "cp_clean3"
  /\ heap' = cp_clean3([h |-> heap, c |-> calls], cp).h
  /\ calls' = cp_clean3([h |-> heap, c |-> calls], cp).c
  /\ cp' = [cp EXCEPT !.returned = TRUE]
  /\ pc' = RetPc /\ stack' = RetStack
  /\ UNCHANGED <<q, pb, ld, sv, dp, pi, pr, ga>>

clut_createProgramFromFile ==
  cp_call \/ cp_parse \/ cp_create \/ cp_opts \/ cp_build \/ cp_fail

\* ---------------------------------------------- clut_loadImageFromFile
\* File names are sequences of characters.
PathPgm == <<"a", ".", "p", "g", "m">>
PathNoDot == <<"a", "p", "g", "m">>
PathPng == <<"a", ".", "p", "n", "g">>
Paths == {PathPgm, PathNoDot, PathPng}
Dims == 1..MaxDim
\* Channel counts the general decoder may report; the last is one the
\* switch does not recognize.
StbChannels == 1..5

\* StringUtils_endsWith(filename, "pgm"), as called at the head of load.
StringUtils_endsWith(str, suffix) ==
  /\ Len(str) >= Len(suffix)
  /\ SubSeq(str, Len(str) - Len(suffix) + 1, Len(str)) = suffix

NewLD(filename, width, height) ==
  [active |-> TRUE, filename |-> filename, width |-> width,
   height |-> height, is_pgm |-> FALSE, img |-> NULL, l_width |-> 0,
   l_height |-> 0, channel_order |-> 0, components |-> 0,
   image_channel_order |-> "0", image_channel_data_type |-> "0",
   image_row_pitch |-> 0, cl_ret |-> CL_SUCCESS, result |-> NULL,
   wOut |-> <<>>, hOut |-> <<>>, returned |-> FALSE, retval |-> NULL,
   path |-> TRUE, crashed |-> FALSE]

\* Faulty variant: two channels mapped to CL_RG instead of CL_RA.
ld_format_rg(channel_order) ==
  CASE channel_order = 1 -> [order |-> "CL_R", components |-> 1]
    [] channel_order = 2 -> [order |-> "CL_RG", components |-> 2]
    [] channel_order = 3 -> [order |-> "CL_RGBA", components |-> 4]
    [] channel_order = 4 -> [order |-> "CL_RGBA", components |-> 4]
    [] OTHER -> [order |-> "0", components |-> 0]
\* The switch on the decoded channel count, cases 1, 2 and 4, and the
\* fourth case after the forced re-decode: [order, components].
ld_format(channel_order) ==
  CASE channel_order = 1 -> [order |-> "CL_R", components |-> 1]
    [] channel_order = 2 -> [order |-> "CL_RA", components |-> 2]
    [] channel_order = 3 -> [order |-> "CL_RGBA", components |-> 4]
    [] channel_order = 4 -> [order |-> "CL_RGBA", components |-> 4]
    [] OTHER -> [order |-> "0", components |-> 0]
ld_recognized(channel_order) == channel_order \in 1..4

\* The descriptor filled in after the decode.
ld_describe(f) ==
  [f EXCEPT !.image_channel_data_type = "CL_UNSIGNED_INT8",
            !.image_row_pitch = f.l_width * f.components]

\* error2: release the host buffer with the decoder's own release.
ld_error2(s, f) ==
  IF f.is_pgm
  THEN Free(s, f.img)
  ELSE [h |-> Release(s.h, f.img, "stbi_image_free"),
        c |-> Event(s.c, "stbi_image_free", CL_SUCCESS, [p |-> f.img])]
\* The exit taken when the element-size query fails.
ld_elemFailed(s, f) == s

\* path, width and height say whether the caller's pointer is non-null;
\* filename is the string a non-null path points to.  A null path is
\* reported with Debug_out and the function goes on.
ld_call ==
  /\ Idle
  /\ \E filename \in Paths \cup {<<>>}, width \in BOOLEAN,
        height \in BOOLEAN :
       ld' = [NewLD(filename, width, height) EXCEPT !.path = filename # <<>>]
  /\ pc' = "ld_decode"
  /\ stack' = <<>> /\ calls' = <<>> /\ heap' = <<>>
  /\ q' = InitQ /\ pb' = InitPB /\ cp' = InitCP /\ sv' = InitSV
  /\ dp' = InitDP /\ pi' = InitPI /\ pr' = InitPR /\ ga' = InitGA

\* The suffix test and the first decode.  StringUtils_endsWith reads the
\* string its argument points to: with a null path its answer is
\* undefined (either answer, or the process stops there).
ld_decode ==
  /\ pc = "ld_decode"
  /\ \E ok \in BOOLEAN, w \in Dims, h \in Dims, ch \in StbChannels,
        undef \in {"true", "false", "stop"} :
       LET is_pgm == IF ld.path
                     THEN StringUtils_endsWith(ld.filename, <<"p", "g", "m">>)
                     ELSE undef = "true"
           f0 == [ld EXCEPT !.is_pgm = is_pgm]
           site == IF is_pgm THEN "pgm_load" ELSE "stbi_load"
           c1 == Event(calls, site, CL_SUCCESS,
                       [ok |-> ok, req |-> 0, file |-> ld.filename])
           h1 == Acquire(heap, site, "clut_loadImageFromFile")
           f1 == [f0 EXCEPT !.img = Len(h1), !.l_width = w, !.l_height = h]
           s1 == [h |-> h1, c |-> c1]
       IN IF ~ld.path /\ undef = "stop"
          THEN /\ calls' = Event(calls, "StringUtils_endsWith", CL_SUCCESS,
                                 [ok |-> FALSE, req |-> 0,
                                  file |-> ld.filename])
               /\ heap' = heap
               /\ ld' = [ld EXCEPT !.crashed = TRUE]
               /\ pc' = "done" /\ stack' = <<>>
          ELSE IF ~ok
          THEN /\ calls' = c1 /\ heap' = heap
               /\ ld' = [f0 EXCEPT !.returned = TRUE, !.retval = f0.result]
               /\ pc' = RetPc /\ stack' = RetStack
          ELSE IF is_pgm
          THEN /\ calls' = c1 /\ heap' = h1
               /\ ld' = ld_describe([f1 EXCEPT !.image_channel_order = "CL_R",
                                               !.components = 1])
               /\ pc' = "ld_create" /\ UNCHANGED stack
          ELSE IF ch = 3
          THEN \* stbi_image_free(img), then the forced re-decode
               /\ calls' = Event(c1, "stbi_image_free", CL_SUCCESS,
                                 [p |-> f1.img])
               /\ heap' = Release(h1, f1.img, "stbi_image_free")
               /\ ld' = [f1 EXCEPT !.channel_order = ch]
               /\ pc' = "ld_redecode" /\ UNCHANGED stack
          ELSE IF ld_recognized(ch)
          THEN /\ calls' = c1 /\ heap' = h1
               /\ ld' = ld_describe(
                          [f1 EXCEPT !.channel_order = ch,
                             !.image_channel_order = ld_format(ch).order,
                             !.components = ld_format(ch).components])
               /\ pc' = "ld_create" /\ UNCHANGED stack
          ELSE /\ calls' = ld_error2(s1, f1).c
               /\ heap' = ld_error2(s1, f1).h
               /\ ld' = [f1 EXCEPT !.channel_order = ch,
                                   !.returned = TRUE, !.retval = f1.result]
               /\ pc' = RetPc /\ stack' = RetStack
  /\ UNCHANGED <<q, pb, cp, sv, dp, pi, pr, ga>>

ld_redecode ==
  /\ pc = "ld_redecode"
  /\ \E ok \in BOOLEAN, w \in Dims, h \in Dims :
       LET c1 == Event(calls, "stbi_load", CL_SUCCESS,
                       [ok |-> ok, req |-> 4, file |-> ld.filename])
           h1 == Acquire(heap, "stbi_load", "clut_loadImageFromFile")
       IN /\ calls' = c1
          /\ IF ~ok
             THEN /\ heap' = heap
                  /\ ld' = [ld EXCEPT !.img = NULL, !.returned = TRUE,
                                      !.retval = ld.result]
                  /\ pc' = RetPc /\ stack' = RetStack
             ELSE /\ heap' = h1
                  /\ ld' = ld_describe(
                             [ld EXCEPT !.img = Len(h1), !.l_width = w,
                                !.l_height = h,
                                !.image_channel_order = ld_format(3).order,
                                !.components = ld_format(3).components])
                  /\ pc' = "ld_create" /\ UNCHANGED stack
  /\ UNCHANGED <<q, pb, cp, sv, dp, pi, pr, ga>>

\* clCreateImage hands back a null handle whenever it reports a failure.
ld_create ==
  /\ pc = "ld_create"
  /\ \E st \in Statuses :
       LET c1 == Event(calls, "clCreateImage", st,
                       [flags |-> {"CL_MEM_READ_ONLY", "CL_MEM_COPY_HOST_PTR"},
                        order |-> ld.image_channel_order,
                        type |-> ld.image_channel_data_type,
                        width |-> ld.l_width, height |-> ld.l_height,
                        row_pitch |-> ld.image_row_pitch, host |-> ld.img])
           h1 == Acquire(heap, "clCreateImage", "clut_loadImageFromFile")
       IN IF ~clut_returnSuccess(st)
          THEN /\ calls' = ld_error2([h |-> heap, c |-> c1], ld).c
               /\ heap' = ld_error2([h |-> heap, c |-> c1], ld).h
               /\ ld' = [ld EXCEPT !.cl_ret = st, !.result = NULL,
                                   !.returned = TRUE, !.retval = NULL]
               /\ pc' = RetPc /\ stack' = RetStack
          ELSE /\ calls' = c1 /\ heap' = h1
               /\ ld' = [ld EXCEPT !.cl_ret = st, !.result = Len(h1)]
               /\ pc' = "ld_elem" /\ UNCHANGED stack
  /\ UNCHANGED <<q, pb, cp, sv, dp, pi, pr, ga>>

ld_elem ==
  /\ pc = "ld_elem"
  /\ \E st \in Statuses :
       LET s1 == [h |-> heap,
                  c |-> Event(calls, "clGetImageInfo", st,
                              [info |-> "CL_IMAGE_ELEMENT_SIZE"])]
       IN IF ~clut_returnSuccess(st)
          THEN /\ calls' = ld_elemFailed(s1, ld).c
               /\ heap' = ld_elemFailed(s1, ld).h
               /\ ld' = [ld EXCEPT !.cl_ret = st, !.returned = TRUE,
                                   !.retval = ld.result]
          ELSE /\ calls' = ld_error2(s1, ld).c
               /\ heap' = ld_error2(s1, ld).h
               /\ ld' = [ld EXCEPT !.cl_ret = st,
                            !.wOut = IF ld.width THEN <<ld.l_width>> ELSE <<>>,
                            !.hOut = IF ld.height THEN <<ld.l_height>> ELSE <<>>,
                            !.returned = TRUE, !.retval = ld.result]
  /\ pc' = RetPc /\ stack' = RetStack
  /\ UNCHANGED <<q, pb, cp, sv, dp, pi, pr, ga>>

clut_loadImageFromFile ==
  ld_call \/ ld_decode \/ ld_redecode \/ ld_create \/ ld_elem

\* ----------------------------------------- clut_getImageFormatComponents
\* Channel orders a device image may report: those of the switch, and two
\* it has no case for.
ChannelOrders ==
  {"CL_R", "CL_Rx", "CL_A", "CL_INTENSITY", "CL_LUMINANCE", "CL_RG",
   "CL_RGx", "CL_RA", "CL_RGB", "CL_RGBx", "CL_RGBA", "CL_BGRA", "CL_ARGB"}
ChannelTypes == {"CL_UNSIGNED_INT8", "CL_UNORM_INT8", "CL_FLOAT"}

\* Faulty variant: CL_RA counted with the three-component orders.
clut_getImageFormatComponents_ra3(image_channel_order) ==
  CASE image_channel_order \in
         {"CL_R", "CL_Rx", "CL_A", "CL_INTENSITY", "CL_LUMINANCE"} -> 1
    [] image_channel_order \in {"CL_RG", "CL_RGx"} -> 2
    [] image_channel_order \in {"CL_RGB", "CL_RGBx", "CL_RA"} -> 3
    [] image_channel_order = "CL_RGBA" -> 4
    [] OTHER -> -1
clut_getImageFormatComponents(image_channel_order) ==
  CASE image_channel_order \in
         {"CL_R", "CL_Rx", "CL_A", "CL_INTENSITY", "CL_LUMINANCE"} -> 1
    [] image_channel_order \in {"CL_RG", "CL_RGx", "CL_RA"} -> 2
    [] image_channel_order \in {"CL_RGB", "CL_RGBx"} -> 3
    [] image_channel_order = "CL_RGBA" -> 4
    [] OTHER -> -1

\* ------------------------------------------------ clut_saveImageToFile
NewSV ==
  [active |-> TRUE, image |-> 1, width |-> 0, height |-> 0,
   image_channel_order |-> "0", image_channel_data_type |-> "0",
   components |-> 0, img |-> NULL, cl_ret |-> CL_SUCCESS, ret |-> 0,
   returned |-> FALSE, path |-> TRUE, nmemb |-> 0, size |-> 0]

\* Faulty variant: only the floating-point encoding is rejected.
sv_invalidType_float(image_channel_data_type) ==
  image_channel_data_type = "CL_FLOAT"
\* The test on the channel data type: TRUE when save gives up.
sv_invalidType(image_channel_data_type) ==
  image_channel_data_type # "CL_UNSIGNED_INT8"
\* Faulty variant: error2 releases nothing.
sv_error2_leak(s, img) == s
\* error2: free(img)
sv_error2(s, img) == Free(s, img)

\* Faulty variant: the status of the read is not checked.
sv_readFailed_never(cl_ret) == FALSE
\* CLUT_CHECK_ERROR(cl_ret, "Read image failed", error2)
sv_readFailed(cl_ret) == ~clut_returnSuccess(cl_ret)

\* path says whether filename is a non-null pointer.  A null filename is
\* reported with Debug_out and the function goes on.
sv_call ==
  /\ Idle
  /\ heap' = Acquire(<<>>, "caller", "caller")     \* the device image of the caller
  /\ \E path \in BOOLEAN : sv' = [NewSV EXCEPT !.path = path]
  /\ pc' = "sv_width"
  /\ stack' = <<>> /\ calls' = <<>>
  /\ q' = InitQ /\ pb' = InitPB /\ cp' = InitCP /\ ld' = InitLD
  /\ dp' = InitDP /\ pi' = InitPI /\ pr' = InitPR /\ ga' = InitGA

sv_width ==
  /\ pc = "sv_width"
  /\ \E st \in Statuses, w \in Dims :
       /\ calls' = Event(calls, "clGetImageInfo", st,
                         [info |-> "CL_IMAGE_WIDTH"])
       /\ IF ~clut_returnSuccess(st)
          THEN /\ sv' = [sv EXCEPT !.cl_ret = st, !.returned = TRUE]
               /\ pc' = RetPc /\ stack' = RetStack
          ELSE /\ sv' = [sv EXCEPT !.cl_ret = st, !.width = w]
               /\ pc' = "sv_height" /\ UNCHANGED stack
  /\ UNCHANGED <<heap, q, pb, cp, ld, dp, pi, pr, ga>>

sv_height ==
  /\ pc = "sv_height"
  /\ \E st \in Statuses, h \in Dims :
       /\ calls' = Event(calls, "clGetImageInfo", st,
                         [info |-> "CL_IMAGE_HEIGHT"])
       /\ IF ~clut_returnSuccess(st)
          THEN /\ sv' = [sv EXCEPT !.cl_ret = st, !.returned = TRUE]
               /\ pc' = RetPc /\ stack' = RetStack
          ELSE /\ sv' = [sv EXCEPT !.cl_ret = st, !.height = h]
               /\ pc' = "sv_format" /\ UNCHANGED stack
  /\ UNCHANGED <<heap, q, pb, cp, ld, dp, pi, pr, ga>>

\* The format query, the data-type test and the component count.
sv_format ==
  /\ pc = "sv_format"
  /\ \E st \in Statuses, o \in ChannelOrders, t \in ChannelTypes :
       /\ calls' = Event(calls, "clGetImageInfo", st,
                         [info |-> "CL_IMAGE_FORMAT"])
       /\ IF ~clut_returnSuccess(st)
          THEN /\ sv' = [sv EXCEPT !.cl_ret = st, !.returned = TRUE]
               /\ pc' = RetPc /\ stack' = RetStack
          ELSE IF sv_invalidType(t)
          THEN /\ sv' = [sv EXCEPT !.cl_ret = st, !.image_channel_order = o,
                                   !.image_channel_data_type = t,
                                   !.returned = TRUE]
               /\ pc' = RetPc /\ stack' = RetStack
          ELSE IF 0 > clut_getImageFormatComponents(o)
          THEN /\ sv' = [sv EXCEPT !.cl_ret = st, !.image_channel_order = o,
                                   !.image_channel_data_type = t,
                                   !.components =
                                      clut_getImageFormatComponents(o),
                                   !.returned = TRUE]
               /\ pc' = RetPc /\ stack' = RetStack
          ELSE /\ sv' = [sv EXCEPT !.cl_ret = st, !.image_channel_order = o,
                                   !.image_channel_data_type = t,
                                   !.components =
                                      clut_getImageFormatComponents(o)]
               /\ pc' = "sv_alloc" /\ UNCHANGED stack
  /\ UNCHANGED <<heap, q, pb, cp, ld, dp, pi, pr, ga>>

\* calloc(width * height, components)
sv_alloc ==
  /\ pc = "sv_alloc"
  /\ \E ok \in BOOLEAN :
       IF ~ok
       THEN /\ sv' = [sv EXCEPT !.returned = TRUE]
            /\ pc' = RetPc /\ stack' = RetStack
            /\ UNCHANGED heap
       ELSE /\ heap' = Acquire(heap, "calloc", "clut_saveImageToFile")
            /\ sv' = [sv EXCEPT !.img = Len(heap) + 1,
                                !.nmemb = sv.width * sv.height,
                                !.size = sv.components]
            /\ pc' = "sv_read" /\ UNCHANGED stack
  /\ UNCHANGED <<calls, q, pb, cp, ld, dp, pi, pr, ga>>

\* The blocking read and, when it succeeds, clFinish(command_queue).
sv_read ==
  /\ pc = "sv_read"
  /\ \E st \in Statuses :
       LET c1 == Event(calls, "clEnqueueReadImage", st,
                       [blocking |-> TRUE, width |-> sv.width,
                        height |-> sv.height,
                        row_pitch |-> sv.width * sv.components,
                        host |-> sv.img])
       IN IF sv_readFailed(st)
          THEN /\ calls' = sv_error2([h |-> heap, c |-> c1], sv.img).c
               /\ heap' = sv_error2([h |-> heap, c |-> c1], sv.img).h
               /\ sv' = [sv EXCEPT !.cl_ret = st, !.returned = TRUE]
               /\ pc' = RetPc /\ stack' = RetStack
          ELSE /\ calls' = Event(c1, "clFinish", CL_SUCCESS,
                                 [none |-> TRUE])
               /\ heap' = heap
               /\ sv' = [sv EXCEPT !.cl_ret = st]
               /\ pc' = "sv_encode" /\ UNCHANGED stack
  /\ UNCHANGED <<q, pb, cp, ld, dp, pi, pr, ga>>

\* stbi_write_png answers 0 on failure; both exits pass through error2.
sv_encode ==
  /\ pc = "sv_encode"
  /\ \E ret \in {0, 1} :
       LET s1 == [h |-> heap,
                  c |-> Event(calls, "stbi_write_png", CL_SUCCESS,
                              [ret |-> ret, path |-> sv.path,
                               width |-> sv.width,
                               height |-> sv.height, comp |-> sv.components,
                               stride |-> sv.width * sv.components,
                               host |-> sv.img])]
       IN /\ calls' = sv_error2(s1, sv.img).c
          /\ heap' = sv_error2(s1, sv.img).h
          /\ sv' = [sv EXCEPT !.ret = ret, !.returned = TRUE]
  /\ pc' = RetPc /\ stack' = RetStack
  /\ UNCHANGED <<q, pb, cp, ld, dp, pi, pr, ga>>

clut_saveImageToFile ==
  sv_call \/ sv_width \/ sv_height \/ sv_format \/ sv_alloc \/ sv_read
    \/ sv_encode

\* ------------------------------------------- clut_getDuplicateEmptyImage
\* The attributes the platform recorded for the image the load created:
\* those of the successful clCreateImage request in the log.
LoadedImage ==
  LET i == CHOOSE i \in DOMAIN calls :
             calls[i].f = "clCreateImage" /\ clut_returnSuccess(calls[i].st)
  IN [width |-> calls[i].a.width, height |-> calls[i].a.height,
      format |-> [image_channel_order |-> calls[i].a.order,
                  image_channel_data_type |-> calls[i].a.type]]
\* The attributes a source image handed in by the caller may have.
SourceImages ==
  [width : Dims, height : Dims,
   format : [image_channel_order : ChannelOrders,
             image_channel_data_type : ChannelTypes]]

\* The frame at entry; src holds what the platform knows of the source
\* image, base is where this call's events start in the log.
NewDP(image, src, base) ==
  [active |-> TRUE, image |-> image, src |-> src, base |-> base,
   width |-> 0, height |-> 0,
   image_format |-> [image_channel_order |-> "0",
                     image_channel_data_type |-> "0"],
   cl_ret |-> CL_SUCCESS, dup_image |-> NULL,
   returned |-> FALSE, retval |-> NULL]

\* Faulty variant: width and height exchanged in the descriptor.
dp_describe_swapped(f) ==
  [flags |-> {"CL_MEM_WRITE_ONLY"},
   order |-> f.image_format.image_channel_order,
   type |-> f.image_format.image_channel_data_type,
   image_type |-> "CL_MEM_OBJECT_IMAGE2D",
   width |-> f.height, height |-> f.width, row_pitch |-> 0, host |-> NULL]
\* image_desc and the arguments of the clCreateImage request.
dp_describe(f) ==
  [flags |-> {"CL_MEM_WRITE_ONLY"},
   order |-> f.image_format.image_channel_order,
   type |-> f.image_format.image_channel_data_type,
   image_type |-> "CL_MEM_OBJECT_IMAGE2D",
   width |-> f.width, height |-> f.height, row_pitch |-> 0, host |-> NULL]

\* Either on an image of the caller, or right after a load on the image
\* that load returned (the log and the heap of the load are kept).
dp_call ==
  /\ Idle
  /\ \/ /\ \E src \in SourceImages : dp' = NewDP(1, src, 0)
        /\ heap' = Acquire(<<>>, "caller", "caller")
        /\ calls' = <<>> /\ ld' = InitLD
     \/ /\ pc = "done" /\ ld.active /\ ld.returned /\ ld.retval # NULL
        /\ ~dp.active
        /\ dp' = NewDP(ld.retval, LoadedImage, Len(calls))
        /\ UNCHANGED <<calls, heap, ld>>
  /\ pc' = "dp_width"
  /\ stack' = <<>>
  /\ q' = InitQ /\ pb' = InitPB /\ cp' = InitCP /\ sv' = InitSV
  /\ pi' = InitPI /\ pr' = InitPR /\ ga' = InitGA

\* One clGetImageInfo on the source image: on success the platform writes
\* the attribute, on failure the function leaves through error1.
dp_query(info, value, field, next) ==
  \E st \in Statuses :
    IF ~clut_returnSuccess(st)
    THEN /\ calls' = Event(calls, "clGetImageInfo", st, [info |-> info])
         /\ dp' = [dp EXCEPT !.cl_ret = st, !.returned = TRUE,
                             !.retval = dp.dup_image]
         /\ pc' = RetPc /\ stack' = RetStack
    ELSE /\ calls' = Event(calls, "clGetImageInfo", st,
                           [info |-> info, value |-> value])
         /\ dp' = [dp EXCEPT !.cl_ret = st, ![field] = value]
         /\ pc' = next /\ UNCHANGED stack

dp_width ==
  /\ pc = "dp_width"
  /\ dp_query("CL_IMAGE_WIDTH", dp.src.width, "width", "dp_height")
  /\ UNCHANGED <<heap, q, pb, cp, ld, sv, pi, pr, ga>>

dp_height ==
  /\ pc = "dp_height"
  /\ dp_query("CL_IMAGE_HEIGHT", dp.src.height, "height", "dp_format")
  /\ UNCHANGED <<heap, q, pb, cp, ld, sv, pi, pr, ga>>

dp_format ==
  /\ pc = "dp_format"
  /\ dp_query("CL_IMAGE_FORMAT", dp.src.format, "image_format", "dp_create")
  /\ UNCHANGED <<heap, q, pb, cp, ld, sv, pi, pr, ga>>

\* clCreateImage answers NULL with a failing status; either way the
\* function returns dup_image.
dp_create ==
  /\ pc = "dp_create"
  /\ \E st \in Statuses :
       LET h1 == IF clut_returnSuccess(st)
                 THEN Acquire(heap, "clCreateImage",
                              "clut_getDuplicateEmptyImage")
                 ELSE heap
           dup_image == IF clut_returnSuccess(st) THEN Len(h1) ELSE NULL
       IN /\ calls' = Event(calls, "clCreateImage", st, dp_describe(dp))
          /\ heap' = h1
          /\ dp' = [dp EXCEPT !.cl_ret = st, !.dup_image = dup_image,
                              !.returned = TRUE, !.retval = dup_image]
  /\ pc' = RetPc /\ stack' = RetStack
  /\ UNCHANGED <<q, pb, cp, ld, sv, pi, pr, ga>>

clut_getDuplicateEmptyImage ==
  dp_call \/ dp_width \/ dp_height \/ dp_format \/ dp_create

\* ================================================== the typed printers
\* --------------------------------------------------- unsigned integers
\* A cl_uint, cl_ulong or size_t value is the little-endian sequence of its
\* base-1024 digits without leading zeros (<<>> is 0): the values of 32
\* and 64 bits do not fit the integers of the model checker.
Radix == 1024
RECURSIVE Trim(_)
Trim(x) ==
  IF x # <<>> /\ x[Len(x)] = 0 THEN Trim(SubSeq(x, 1, Len(x) - 1)) ELSE x
RECURSIVE UInt(_)
UInt(n) == IF n = 0 THEN <<>> ELSE <<n % Radix>> \o UInt(n \div Radix)
\* x + c and x * m for small c and m.
RECURSIVE Add(_, _)
Add(x, c) ==
  IF c = 0 THEN x
  ELSE IF x = <<>> THEN UInt(c)
  ELSE <<(Head(x) + c) % Radix>> \o Add(Tail(x), (Head(x) + c) \div Radix)
RECURSIVE MulAdd(_, _, _)
MulAdd(x, m, c) ==
  IF x = <<>> THEN UInt(c)
  ELSE <<(Head(x) * m + c) % Radix>>
         \o MulAdd(Tail(x), m, (Head(x) * m + c) \div Radix)
Mul(x, m) == Trim(MulAdd(x, m, 0))
\* Quotient and remainder of x by a small d.
RECURSIVE DivMod(_, _)
DivMod(x, d) ==
  IF x = <<>> THEN [q |-> <<>>, r |-> 0]
  ELSE LET hi == DivMod(Tail(x), d)
           cur == hi.r * Radix + Head(x)
       IN [q |-> Trim(<<cur \div d>> \o hi.q), r |-> cur % d]
\* The number of binary digits of x, bit k of x, and whether the k lowest
\* bits of x are all zero.
RECURSIVE BitLen(_)
BitLen(n) == IF n = 0 THEN 0 ELSE 1 + BitLen(n \div 2)
Bits(x) == IF x = <<>> THEN 0 ELSE 10 * (Len(x) - 1) + BitLen(x[Len(x)])
Bit(x, k) ==
  IF k \div 10 + 1 > Len(x) THEN 0
  ELSE (x[k \div 10 + 1] \div (2 ^ (k % 10))) % 2
LowZero(x, k) ==
  /\ \A j \in 1..(k \div 10) : j <= Len(x) => x[j] = 0
  /\ k \div 10 + 1 <= Len(x) => x[k \div 10 + 1] % (2 ^ (k % 10)) = 0
\* x * 2^k and floor(x / 2^k).
ShiftLeft(x, k) ==
  IF x = <<>> THEN <<>>
  ELSE [j \in 1..(k \div 10) |-> 0] \o Mul(x, 2 ^ (k % 10))
ShiftRight(x, k) ==
  IF k \div 10 >= Len(x) THEN <<>>
  ELSE DivMod(SubSeq(x, k \div 10 + 1, Len(x)), 2 ^ (k % 10)).q
\* x >= n for a small n.
Ge(x, n) ==
  \/ Len(x) > Len(UInt(n))
  \/ /\ Len(x) = Len(UInt(n))
     /\ \A j \in 1..Len(x) :
          x[j] < UInt(n)[j] => \E k \in (j + 1)..Len(x) : x[k] > UInt(n)[k]

\* printf's %u, %llu and %zu: the decimal digits of x.
Digit == <<"0", "1", "2", "3", "4", "5", "6", "7", "8", "9">>
RECURSIVE Digits(_)
Digits(x) ==
  IF x = <<>> THEN ""
  ELSE Digits(DivMod(x, 10).q) \o Digit[DivMod(x, 10).r + 1]
Decimal(x) == IF x = <<>> THEN "0" ELSE Digits(x)

\* ------------------------------------------------------------- doubles
\* A double is [m, e], the value m * 2^e with m an integer below 2^53
\* (2^53 itself after a carry); arithmetic rounds to nearest, ties to even.
\* Round: the double nearest to x * 2^e, where sticky tells that the exact
\* value lies above x * 2^e by less than 2^e.
Round(x, e, sticky) ==
  IF Bits(x) <= 53 THEN [m |-> x, e |-> e]
  ELSE LET k == Bits(x) - 53
           t == ShiftRight(x, k)
           up == /\ Bit(x, k - 1) = 1
                 /\ \/ ~LowZero(x, k - 1)
                    \/ sticky
                    \/ Bit(x, k) = 1
       IN [m |-> IF up THEN Add(t, 1) ELSE t, e |-> e + k]
\* The conversion of an unsigned integer to double.
ToDouble(x) == Round(x, 0, FALSE)
\* d / c for a small integer c (1024.0 or 1000).
FDiv(d, c) ==
  IF d.m = <<>> THEN d
  ELSE LET sh == IF Bits(d.m) < 53 THEN 53 - Bits(d.m) ELSE 0
           n == DivMod(ShiftLeft(d.m, sh + 20), c)
       IN Round(n.q, d.e - sh - 20, n.r # 0)
\* The integer part of d, and d >= n for a small integer n.
Floor(d) == IF d.e >= 0 THEN ShiftLeft(d.m, d.e) ELSE ShiftRight(d.m, -d.e)
FGe(d, n) == Ge(Floor(d), n)
\* printf's %.2f: d in hundredths, rounded to nearest, ties to even, then
\* the integer part, a point and two digits.
Hundredths(d) ==
  LET p == Mul(d.m, 100)
      k == -d.e
      up == /\ Bit(p, k - 1) = 1
            /\ ~LowZero(p, k - 1) \/ Bit(p, k) = 1
  IN IF d.e >= 0 THEN ShiftLeft(p, d.e)
     ELSE IF up THEN Add(ShiftRight(p, k), 1) ELSE ShiftRight(p, k)
Fixed2(d) ==
  LET h == DivMod(Hundredths(d), 100)
  IN Decimal(h.q) \o "." \o Digit[h.r \div 10 + 1] \o Digit[(h.r % 10) + 1]

\* ------------------------------------------------- scaled unit printers
\* A char pointer: a string, or the NULL that ends a unit table.
Ptr(str) == [null |-> FALSE, s |-> str]
NullString == [null |-> TRUE, s |-> "(null)"]
\* Faulty variant: the loop continues only above c, not at c.
RECURSIVE ScaleLoop_strict(_, _, _, _)
ScaleLoop_strict(shorter, i, c, limit) ==
  IF FGe(shorter, c + 1) /\ i < limit
  THEN ScaleLoop_strict(FDiv(shorter, c), i + 1, c, limit)
  ELSE [shorter |-> shorter, i |-> i]
\* The loop `while ((shorter >= c) && (i < limit)) { shorter /= c; ++i; }`.
RECURSIVE ScaleLoop(_, _, _, _)
ScaleLoop(shorter, i, c, limit) ==
  IF FGe(shorter, c) /\ i < limit
  THEN ScaleLoop(FDiv(shorter, c), i + 1, c, limit)
  ELSE [shorter |-> shorter, i |-> i]

\* The index i, the text printed, and whether a NULL went to a %s.
clut_info_print_CL_UINT_bytes(bytes) ==
  LET bytes_unit == <<Ptr("KB"), Ptr("MB"), Ptr("GB"), NullString>>
      l == ScaleLoop(ToDouble(bytes), -1, 1024, 3)
  IN IF 0 <= l.i
     THEN [i |-> l.i, ub |-> bytes_unit[l.i + 1].null,
           out |-> Fixed2(l.shorter) \o " " \o bytes_unit[l.i + 1].s
                   \o " (" \o Decimal(bytes) \o " bytes)"]
     ELSE [i |-> l.i, ub |-> FALSE, out |-> Decimal(bytes) \o " bytes"]

clut_info_print_CL_UINT_hertz(hertz) ==
  LET hertz_unit == <<Ptr("MhZ"), Ptr("GhZ"), NullString>>
      l == ScaleLoop(ToDouble(hertz), 0, 1000, 2)
  IN IF 0 < l.i
     THEN [i |-> l.i, ub |-> hertz_unit[l.i + 1].null,
           out |-> Fixed2(l.shorter) \o " " \o hertz_unit[l.i + 1].s
                   \o " (" \o Decimal(hertz) \o " " \o hertz_unit[1].s
                   \o ")"]
     ELSE [i |-> l.i, ub |-> FALSE,
           out |-> Decimal(hertz) \o " " \o hertz_unit[1].s]

clut_info_print_CL_ULONG_bytes(bytes) ==
  LET bytes_unit == <<Ptr("KB"), Ptr("MB"), Ptr("GB"), Ptr("TB"),
                      Ptr("PB"), NullString>>
      l == ScaleLoop(ToDouble(bytes), -1, 1024, 5)
  IN IF 0 <= l.i
     THEN [i |-> l.i, ub |-> bytes_unit[l.i + 1].null,
           out |-> Fixed2(l.shorter) \o " " \o bytes_unit[l.i + 1].s
                   \o " (" \o Decimal(bytes) \o " bytes)"]
     ELSE [i |-> l.i, ub |-> FALSE, out |-> Decimal(bytes) \o " bytes"]

\* ---------------------------------------------------- bitfield printers
\* The values CL/cl.h gives the flags of the tables below.
CL ==
  [CL_DEVICE_AFFINITY_DOMAIN_NUMA |-> 1,
   CL_DEVICE_AFFINITY_DOMAIN_L4_CACHE |-> 2,
   CL_DEVICE_AFFINITY_DOMAIN_L3_CACHE |-> 4,
   CL_DEVICE_AFFINITY_DOMAIN_L2_CACHE |-> 8,
   CL_DEVICE_AFFINITY_DOMAIN_L1_CACHE |-> 16,
   CL_DEVICE_AFFINITY_DOMAIN_NEXT_PARTITIONABLE |-> 32,
   CL_EXEC_KERNEL |-> 1, CL_EXEC_NATIVE_KERNEL |-> 2,
   CL_QUEUE_OUT_OF_ORDER_EXEC_MODE_ENABLE |-> 1,
   CL_QUEUE_PROFILING_ENABLE |-> 2,
   CL_FP_DENORM |-> 1, CL_FP_INF_NAN |-> 2, CL_FP_ROUND_TO_NEAREST |-> 4,
   CL_FP_ROUND_TO_ZERO |-> 8, CL_FP_ROUND_TO_INF |-> 16, CL_FP_FMA |-> 32,
   CL_FP_SOFT_FLOAT |-> 64, CL_FP_CORRECTLY_ROUNDED_DIVIDE_SQRT |-> 128,
   CL_DEVICE_PARTITION_EQUALLY |-> 4230,
   CL_DEVICE_PARTITION_BY_COUNTS |-> 4231,
   CL_DEVICE_PARTITION_BY_AFFINITY_DOMAIN |-> 4232,
   CL_FALSE |-> 0, CL_NONE |-> 0,
   CL_READ_ONLY_CACHE |-> 1, CL_READ_WRITE_CACHE |-> 2,
   CL_LOCAL |-> 1, CL_GLOBAL |-> 2,
   CL_DEVICE_TYPE_DEFAULT |-> 1, CL_DEVICE_TYPE_CPU |-> 2,
   CL_DEVICE_TYPE_GPU |-> 4, CL_DEVICE_TYPE_ACCELERATOR |-> 8,
   CL_DEVICE_TYPE_CUSTOM |-> 16]

cl_device_affinity_domains ==
  <<CL.CL_DEVICE_AFFINITY_DOMAIN_NUMA, CL.CL_DEVICE_AFFINITY_DOMAIN_L4_CACHE,
    CL.CL_DEVICE_AFFINITY_DOMAIN_L3_CACHE,
    CL.CL_DEVICE_AFFINITY_DOMAIN_L2_CACHE,
    CL.CL_DEVICE_AFFINITY_DOMAIN_L1_CACHE,
    CL.CL_DEVICE_AFFINITY_DOMAIN_NEXT_PARTITIONABLE>>
cl_device_exec_capabilities_array ==
  <<CL.CL_EXEC_KERNEL, CL.CL_EXEC_NATIVE_KERNEL>>
cl_command_queue_properties_array ==
  <<CL.CL_QUEUE_OUT_OF_ORDER_EXEC_MODE_ENABLE, CL.CL_QUEUE_PROFILING_ENABLE>>
cl_device_fp_configs_array ==
  <<CL.CL_FP_DENORM, CL.CL_FP_INF_NAN, CL.CL_FP_ROUND_TO_NEAREST,
    CL.CL_FP_ROUND_TO_ZERO, CL.CL_FP_ROUND_TO_INF, CL.CL_FP_FMA,
    CL.CL_FP_CORRECTLY_ROUNDED_DIVIDE_SQRT, CL.CL_FP_SOFT_FLOAT>>

clut_get_CL_DEVICE_EXEC_CAPABILITIES_Description(value) ==
  CASE value = CL.CL_EXEC_KERNEL -> "OpenCL C kernels"
    [] value = CL.CL_EXEC_NATIVE_KERNEL -> "Native kernels"
    [] OTHER -> "UNKNOWN EXEC CAPABILITY"
clut_get_CL_DEVICE_AFFINITY_DOMAIN_Description(value) ==
  CASE value = CL.CL_DEVICE_AFFINITY_DOMAIN_NUMA -> "NUMA"
    [] value = CL.CL_DEVICE_AFFINITY_DOMAIN_L4_CACHE -> "L4 cache"
    [] value = CL.CL_DEVICE_AFFINITY_DOMAIN_L3_CACHE -> "L3 cache"
    [] value = CL.CL_DEVICE_AFFINITY_DOMAIN_L2_CACHE -> "L2 cache"
    [] value = CL.CL_DEVICE_AFFINITY_DOMAIN_L1_CACHE -> "L1 cache"
    [] value = CL.CL_DEVICE_AFFINITY_DOMAIN_NEXT_PARTITIONABLE
         -> "Next Partitionable"
    [] value = 0 -> "no affinity domain supported"
    [] OTHER -> "UNKNOWN PARTITION DOMAIN"
clut_get_CL_DEVICE_FP_CONFIG_Description(value) ==
  CASE value = CL.CL_FP_DENORM -> "denorms"
    [] value = CL.CL_FP_INF_NAN -> "INF and NaN values"
    [] value = CL.CL_FP_ROUND_TO_NEAREST -> "rounding to nearest"
    [] value = CL.CL_FP_ROUND_TO_ZERO -> "rounding to zero"
    [] value = CL.CL_FP_ROUND_TO_INF -> "rouding to INF"
    [] value = CL.CL_FP_FMA -> "fused multiply-add"
    [] value = CL.CL_FP_CORRECTLY_ROUNDED_DIVIDE_SQRT
         -> "correctly rounded divides and sqrt"
    [] value = CL.CL_FP_SOFT_FLOAT -> "software float ops"
    [] OTHER -> "UNKNOWN FP CAPABILITY"
clut_get_CL_DEVICE_PARTITION_PROPERTY_Description(value) ==
  CASE value = CL.CL_DEVICE_PARTITION_EQUALLY -> "partition equally"
    [] value = CL.CL_DEVICE_PARTITION_BY_COUNTS -> "partition by counts"
    [] value = CL.CL_DEVICE_PARTITION_BY_AFFINITY_DOMAIN
         -> "partition by domain"
    [] value = 0 -> "no partition type supported"
    [] OTHER -> "UNKNOWN PARTITION PROPERTY"
clut_get_CL_COMMAND_QUEUE_PROPERTIES_Description(value) ==
  CASE value = CL.CL_QUEUE_OUT_OF_ORDER_EXEC_MODE_ENABLE
         -> "out of order execution"
    [] value = CL.CL_QUEUE_PROFILING_ENABLE -> "profiling"
    [] OTHER -> "UNKNOWN QUEUE PROPERTY"

\* a & b on unsigned integers.
RECURSIVE BitAnd(_, _)
BitAnd(a, b) ==
  IF a = 0 \/ b = 0 THEN 0
  ELSE (a % 2) * (b % 2) + 2 * BitAnd(a \div 2, b \div 2)

\* Faulty variant: the separator is printed before the first name too.
bf_format_always(printed) == ", "
\* The format chosen by (0 < printed) ? ", %s" : "%s": what precedes %s.
bf_format(printed) == IF 0 < printed THEN ", " ELSE ""
\* The loop over a flag table, from index i on; names[j] is the description
\* of table[j].
RECURSIVE bf_loop(_, _, _, _, _, _)
bf_loop(raw, table, names, i, printed, out) ==
  IF i < Len(table)
  THEN IF BitAnd(raw, table[i + 1]) # 0
       THEN bf_loop(raw, table, names, i + 1, printed + 1,
                    out \o bf_format(printed) \o names[i + 1])
       ELSE bf_loop(raw, table, names, i + 1, printed, out)
  ELSE [i |-> i, ub |-> FALSE, out |-> out]

clut_info_print_CL_DEVICE_AFFINITY_DOMAIN(domain) ==
  IF 0 = domain
  THEN [i |-> 0, ub |-> FALSE,
        out |-> clut_get_CL_DEVICE_AFFINITY_DOMAIN_Description(domain)]
  ELSE bf_loop(domain, cl_device_affinity_domains,
               [j \in DOMAIN cl_device_affinity_domains |->
                  clut_get_CL_DEVICE_AFFINITY_DOMAIN_Description(
                    cl_device_affinity_domains[j])], 0, 0, "")
clut_info_print_CL_DEVICE_EXEC_CAPABILITIES(cap) ==
  bf_loop(cap, cl_device_exec_capabilities_array,
          [j \in DOMAIN cl_device_exec_capabilities_array |->
             clut_get_CL_DEVICE_EXEC_CAPABILITIES_Description(
               cl_device_exec_capabilities_array[j])], 0, 0, "")
clut_info_print_CL_COMMAND_QUEUE_PROPERTIES(prop) ==
  bf_loop(prop, cl_command_queue_properties_array,
          [j \in DOMAIN cl_command_queue_properties_array |->
             clut_get_CL_COMMAND_QUEUE_PROPERTIES_Description(
               cl_command_queue_properties_array[j])], 0, 0, "")
clut_info_print_CL_DEVICE_FP_CONFIG(cap) ==
  IF 0 = cap
  THEN [i |-> 0, ub |-> FALSE, out |-> "no FP capabilities"]
  ELSE bf_loop(cap, cl_device_fp_configs_array,
               [j \in DOMAIN cl_device_fp_configs_array |->
                  clut_get_CL_DEVICE_FP_CONFIG_Description(
                    cl_device_fp_configs_array[j])], 0, 0, "")

\* ------------------------------------------------------ simple printers
\* What a printer that only calls printf hands back.
Out(str) == [i |-> 0, ub |-> FALSE, out |-> str]

\* printf("%s", str): the characters of str up to its closing NUL.
RECURSIVE Chars(_)
Chars(str) ==
  IF str = <<>> \/ Head(str) = NUL THEN "" ELSE Head(str) \o Chars(Tail(str))
clut_info_print_String(str) ==
  IF 0 >= strlen(str) THEN Out("N.A.") ELSE Out(Chars(str))
clut_info_print_SIZE_T(value) == Out(Decimal(value))
clut_info_print_SIZE_T_nanoseconds(value) == Out(Decimal(value) \o " ns")
clut_info_print_SIZE_T_pixels(value) == Out(Decimal(value) \o " pixels")
clut_info_print_CL_BOOL(value) ==
  Out(IF CL.CL_FALSE = value THEN "FALSE" ELSE "TRUE")
clut_info_print_CL_UINT(value) == Out(Decimal(value))
clut_info_print_CL_UINT_bits(value) == Out(Decimal(value) \o " bits")

clut_get_CL_DEVICE_MEM_CACHE_TYPE_Description(value) ==
  CASE value = CL.CL_NONE -> "no cache"
    [] value = CL.CL_READ_ONLY_CACHE -> "read only cache"
    [] value = CL.CL_READ_WRITE_CACHE -> "read/write cache"
    [] OTHER -> "UNKNOWN CACHE TYPE"
clut_get_CL_DEVICE_LOCAL_MEM_TYPE_Description(value) ==
  CASE value = CL.CL_GLOBAL -> "global"
    [] value = CL.CL_LOCAL -> "local"
    [] value = CL.CL_NONE -> "no memory"
    [] OTHER -> "UNKNOWN MEMORY TYPE"
clut_get_CL_DEVICE_TYPE_Description(value) ==
  CASE value = CL.CL_DEVICE_TYPE_CPU -> "CPU"
    [] value = CL.CL_DEVICE_TYPE_GPU -> "GPU"
    [] value = CL.CL_DEVICE_TYPE_ACCELERATOR -> "Accelerator"
    [] value = CL.CL_DEVICE_TYPE_DEFAULT -> "Default device type"
    [] value = CL.CL_DEVICE_TYPE_CUSTOM -> "Custom device"
    [] OTHER -> "UNKNOWN DEVICE TYPE"
clut_info_print_CL_DEVICE_TYPE(type) ==
  Out(clut_get_CL_DEVICE_TYPE_Description(type))
clut_info_print_CL_DEVICE_MEM_CACHE_TYPE(type) ==
  Out(clut_get_CL_DEVICE_MEM_CACHE_TYPE_Description(type))
clut_info_print_CL_DEVICE_LOCAL_MEM_TYPE(type) ==
  Out(clut_get_CL_DEVICE_LOCAL_MEM_TYPE_Description(type))

\* The name printers: `result` is what the nested query for the name of
\* the device or platform returned, printed as the string it is.
clut_info_print_CL_DEVICE_NAME_from_ID(result) ==
  IF ~result.null THEN clut_info_print_String(result.s) ELSE Out("N.A.")
clut_info_print_CL_PLATFORM_NAME_from_ID(result) ==
  IF ~result.null THEN clut_info_print_String(result.s) ELSE Out("N.A.")

\* ------------------------------------------------------ vector printers
\* sizeof(values[0]): a size_t or a cl_device_partition_property.
sizeof_element == 8
\* Faulty variant: a partial trailing element counts as an element.
array_len_partial(size) == (size + sizeof_element - 1) \div sizeof_element
array_len(size) == size \div sizeof_element
\* The loop over the array, from index i on; texts[j] is what element j of
\* the buffer prints as.  An element past the end of the buffer cannot be
\* read.
RECURSIVE vec_loop(_, _, _, _, _)
vec_loop(texts, len, i, printed, out) ==
  IF i < len
  THEN IF i + 1 \in DOMAIN texts
       THEN vec_loop(texts, len, i + 1, printed + 1,
                     out \o bf_format(printed) \o texts[i + 1])
       ELSE [i |-> i, ub |-> TRUE, out |-> out]
  ELSE [i |-> i, ub |-> FALSE, out |-> out]
clut_info_print_CL_DEVICE_MAX_WORK_ITEM_SIZES(values, size) ==
  vec_loop([j \in DOMAIN values |-> Decimal(UInt(values[j]))],
           array_len(size), 0, 0, "")
clut_info_print_CL_DEVICE_PARTITION_PROPERTIES(values, size) ==
  vec_loop([j \in DOMAIN values |->
              clut_get_CL_DEVICE_PARTITION_PROPERTY_Description(values[j])],
           array_len(size), 0, 0, "")

\* ------------------------------------------------------- typed dispatch
platform_infos ==
  <<"CL_PLATFORM_NAME", "CL_PLATFORM_VENDOR", "CL_PLATFORM_PROFILE",
    "CL_PLATFORM_VERSION">>
device_infos ==
  <<"CL_DEVICE_NAME", "CL_DEVICE_TYPE", "CL_DEVICE_VENDOR",
    "CL_DEVICE_VENDOR_ID", "CL_DEVICE_MAX_CLOCK_FREQUENCY",
    "CL_DEVICE_MAX_COMPUTE_UNITS", "CL_DEVICE_MAX_WORK_GROUP_SIZE",
    "CL_DEVICE_MAX_WORK_ITEM_DIMENSIONS", "CL_DEVICE_MAX_WORK_ITEM_SIZES",
    "CL_DEVICE_PROFILE", "CL_DRIVER_VERSION", "CL_DEVICE_VERSION",
    "CL_DEVICE_OPENCL_C_VERSION", "CL_DEVICE_PLATFORM",
    "CL_DEVICE_AVAILABLE", "CL_DEVICE_COMPILER_AVAILABLE",
    "CL_DEVICE_LINKER_AVAILABLE", "CL_DEVICE_ERROR_CORRECTION_SUPPORT",
    "CL_DEVICE_ENDIAN_LITTLE", "CL_DEVICE_PREFERRED_INTEROP_USER_SYNC",
    "CL_DEVICE_PROFILING_TIMER_RESOLUTION", "CL_DEVICE_ADDRESS_BITS",
    "CL_DEVICE_HOST_UNIFIED_MEMORY", "CL_DEVICE_GLOBAL_MEM_SIZE",
    "CL_DEVICE_GLOBAL_MEM_CACHE_SIZE",
    "CL_DEVICE_GLOBAL_MEM_CACHELINE_SIZE",
    "CL_DEVICE_GLOBAL_MEM_CACHE_TYPE", "CL_DEVICE_LOCAL_MEM_SIZE",
    "CL_DEVICE_LOCAL_MEM_TYPE", "CL_DEVICE_PRINTF_BUFFER_SIZE",
    "CL_DEVICE_IMAGE_SUPPORT", "CL_DEVICE_IMAGE_MAX_ARRAY_SIZE",
    "CL_DEVICE_IMAGE_MAX_BUFFER_SIZE", "CL_DEVICE_IMAGE2D_MAX_HEIGHT",
    "CL_DEVICE_IMAGE2D_MAX_WIDTH", "CL_DEVICE_IMAGE3D_MAX_DEPTH",
    "CL_DEVICE_IMAGE3D_MAX_HEIGHT", "CL_DEVICE_IMAGE3D_MAX_WIDTH",
    "CL_DEVICE_MAX_READ_IMAGE_ARGS", "CL_DEVICE_MAX_WRITE_IMAGE_ARGS",
    "CL_DEVICE_MAX_CONSTANT_ARGS", "CL_DEVICE_MAX_CONSTANT_BUFFER_SIZE",
    "CL_DEVICE_MAX_MEM_ALLOC_SIZE", "CL_DEVICE_MAX_PARAMETER_SIZE",
    "CL_DEVICE_MAX_SAMPLERS", "CL_DEVICE_MEM_BASE_ADDR_ALIGN",
    "CL_DEVICE_MIN_DATA_TYPE_ALIGN_SIZE",
    "CL_DEVICE_PARTITION_MAX_SUB_DEVICES", "CL_DEVICE_PARTITION_PROPERTIES",
    "CL_DEVICE_PARTITION_AFFINITY_DOMAIN", "CL_DEVICE_PARTITION_TYPE",
    "CL_DEVICE_NATIVE_VECTOR_WIDTH_CHAR",
    "CL_DEVICE_NATIVE_VECTOR_WIDTH_DOUBLE",
    "CL_DEVICE_NATIVE_VECTOR_WIDTH_FLOAT",
    "CL_DEVICE_NATIVE_VECTOR_WIDTH_HALF",
    "CL_DEVICE_NATIVE_VECTOR_WIDTH_INT",
    "CL_DEVICE_NATIVE_VECTOR_WIDTH_LONG",
    "CL_DEVICE_NATIVE_VECTOR_WIDTH_SHORT",
    "CL_DEVICE_PREFERRED_VECTOR_WIDTH_CHAR",
    "CL_DEVICE_PREFERRED_VECTOR_WIDTH_DOUBLE",
    "CL_DEVICE_PREFERRED_VECTOR_WIDTH_FLOAT",
    "CL_DEVICE_PREFERRED_VECTOR_WIDTH_HALF",
    "CL_DEVICE_PREFERRED_VECTOR_WIDTH_INT",
    "CL_DEVICE_PREFERRED_VECTOR_WIDTH_LONG",
    "CL_DEVICE_PREFERRED_VECTOR_WIDTH_SHORT", "CL_DEVICE_SINGLE_FP_CONFIG",
    "CL_DEVICE_DOUBLE_FP_CONFIG", "CL_DEVICE_QUEUE_PROPERTIES",
    "CL_DEVICE_REFERENCE_COUNT", "CL_DEVICE_EXECUTION_CAPABILITIES",
    "CL_DEVICE_BUILT_IN_KERNELS">>

\* r is the buffer the query returned; nested is what a nested query for
\* a name returns.
clut_deviceInfo_typedPrint(info, r, nested) ==
  CASE info \in
         {"CL_DEVICE_BUILT_IN_KERNELS",
          "CL_DEVICE_EXTENSIONS",
          "CL_DEVICE_NAME",
          "CL_DEVICE_OPENCL_C_VERSION",
          "CL_DEVICE_PROFILE",
          "CL_DEVICE_VENDOR",
          "CL_DEVICE_VERSION",
          "CL_DRIVER_VERSION"}
         -> clut_info_print_String(r.str)
    [] info \in
         {"CL_DEVICE_IMAGE_MAX_ARRAY_SIZE",
          "CL_DEVICE_MAX_PARAMETER_SIZE",
          "CL_DEVICE_MAX_WORK_GROUP_SIZE",
          "CL_DEVICE_PRINTF_BUFFER_SIZE"}
         -> clut_info_print_SIZE_T(r.value)
    [] info = "CL_DEVICE_PROFILING_TIMER_RESOLUTION"
         -> clut_info_print_SIZE_T_nanoseconds(r.value)
    [] info \in
         {"CL_DEVICE_IMAGE2D_MAX_HEIGHT",
          "CL_DEVICE_IMAGE2D_MAX_WIDTH",
          "CL_DEVICE_IMAGE3D_MAX_DEPTH",
          "CL_DEVICE_IMAGE3D_MAX_HEIGHT",
          "CL_DEVICE_IMAGE3D_MAX_WIDTH",
          "CL_DEVICE_IMAGE_MAX_BUFFER_SIZE"}
         -> clut_info_print_SIZE_T_pixels(r.value)
    [] info \in
         {"CL_DEVICE_AVAILABLE",
          "CL_DEVICE_COMPILER_AVAILABLE",
          "CL_DEVICE_ENDIAN_LITTLE",
          "CL_DEVICE_ERROR_CORRECTION_SUPPORT",
          "CL_DEVICE_HOST_UNIFIED_MEMORY",
          "CL_DEVICE_IMAGE_SUPPORT",
          "CL_DEVICE_LINKER_AVAILABLE",
          "CL_DEVICE_PREFERRED_INTEROP_USER_SYNC"}
         -> clut_info_print_CL_BOOL(r.raw)
    [] info \in
         {"CL_DEVICE_MAX_COMPUTE_UNITS",
          "CL_DEVICE_MAX_CONSTANT_ARGS",
          "CL_DEVICE_MAX_READ_IMAGE_ARGS",
          "CL_DEVICE_MAX_SAMPLERS",
          "CL_DEVICE_MAX_WORK_ITEM_DIMENSIONS",
          "CL_DEVICE_MAX_WRITE_IMAGE_ARGS",
          "CL_DEVICE_MEM_BASE_ADDR_ALIGN",
          "CL_DEVICE_MIN_DATA_TYPE_ALIGN_SIZE",
          "CL_DEVICE_NATIVE_VECTOR_WIDTH_CHAR",
          "CL_DEVICE_NATIVE_VECTOR_WIDTH_DOUBLE",
          "CL_DEVICE_NATIVE_VECTOR_WIDTH_FLOAT",
          "CL_DEVICE_NATIVE_VECTOR_WIDTH_HALF",
          "CL_DEVICE_NATIVE_VECTOR_WIDTH_INT",
          "CL_DEVICE_NATIVE_VECTOR_WIDTH_LONG",
          "CL_DEVICE_NATIVE_VECTOR_WIDTH_SHORT",
          "CL_DEVICE_PARTITION_MAX_SUB_DEVICES",
          "CL_DEVICE_PREFERRED_VECTOR_WIDTH_CHAR",
          "CL_DEVICE_PREFERRED_VECTOR_WIDTH_DOUBLE",
          "CL_DEVICE_PREFERRED_VECTOR_WIDTH_FLOAT",
          "CL_DEVICE_PREFERRED_VECTOR_WIDTH_HALF",
          "CL_DEVICE_PREFERRED_VECTOR_WIDTH_INT",
          "CL_DEVICE_PREFERRED_VECTOR_WIDTH_LONG",
          "CL_DEVICE_PREFERRED_VECTOR_WIDTH_SHORT",
          "CL_DEVICE_REFERENCE_COUNT",
          "CL_DEVICE_VENDOR_ID"}
         -> clut_info_print_CL_UINT(r.value)
    [] info = "CL_DEVICE_ADDRESS_BITS"
         -> clut_info_print_CL_UINT_bits(r.value)
    [] info \in
         {"CL_DEVICE_GLOBAL_MEM_CACHELINE_SIZE",
          "CL_DEVICE_MAX_CONSTANT_BUFFER_SIZE",
          "CL_DEVICE_MAX_MEM_ALLOC_SIZE"}
         -> clut_info_print_CL_UINT_bytes(r.value)
    [] info = "CL_DEVICE_MAX_CLOCK_FREQUENCY"
         -> clut_info_print_CL_UINT_hertz(r.value)
    [] info \in
         {"CL_DEVICE_GLOBAL_MEM_CACHE_SIZE",
          "CL_DEVICE_GLOBAL_MEM_SIZE",
          "CL_DEVICE_LOCAL_MEM_SIZE"}
         -> clut_info_print_CL_ULONG_bytes(r.value)
    [] info = "CL_DEVICE_QUEUE_PROPERTIES"
         -> clut_info_print_CL_COMMAND_QUEUE_PROPERTIES(r.raw)
    [] info = "CL_DEVICE_PARTITION_AFFINITY_DOMAIN"
         -> clut_info_print_CL_DEVICE_AFFINITY_DOMAIN(r.raw)
    [] info = "CL_DEVICE_EXECUTION_CAPABILITIES"
         -> clut_info_print_CL_DEVICE_EXEC_CAPABILITIES(r.raw)
    [] info \in
         {"CL_DEVICE_DOUBLE_FP_CONFIG",
          "CL_DEVICE_HALF_FP_CONFIG",
          "CL_DEVICE_SINGLE_FP_CONFIG"}
         -> clut_info_print_CL_DEVICE_FP_CONFIG(r.raw)
    [] info = "CL_DEVICE_MAX_WORK_ITEM_SIZES"
         -> clut_info_print_CL_DEVICE_MAX_WORK_ITEM_SIZES(r.elems, r.size)
    [] info = "CL_DEVICE_GLOBAL_MEM_CACHE_TYPE"
         -> clut_info_print_CL_DEVICE_MEM_CACHE_TYPE(r.raw)
    [] info = "CL_DEVICE_LOCAL_MEM_TYPE"
         -> clut_info_print_CL_DEVICE_LOCAL_MEM_TYPE(r.raw)
    [] info = "CL_DEVICE_PARENT_DEVICE"
         -> clut_info_print_CL_DEVICE_NAME_from_ID(nested)
    [] info = "CL_DEVICE_PARTITION_PROPERTIES"
         -> clut_info_print_CL_DEVICE_PARTITION_PROPERTIES(r.elems, r.size)
    [] info = "CL_DEVICE_TYPE"
         -> clut_info_print_CL_DEVICE_TYPE(r.raw)
    [] info = "CL_DEVICE_PLATFORM"
         -> clut_info_print_CL_PLATFORM_NAME_from_ID(nested)
    [] info = "CL_DEVICE_PARTITION_TYPE"
         -> Out("[PRINT NOT IMPLEMENTED]")
    [] OTHER -> Out("UNKNOWN DEVICE INFO")
clut_platformInfo_typedPrint(info, r) ==
  CASE info \in
         {"CL_PLATFORM_PROFILE",
          "CL_PLATFORM_VERSION",
          "CL_PLATFORM_NAME",
          "CL_PLATFORM_VENDOR",
          "CL_PLATFORM_EXTENSIONS"}
         -> clut_info_print_String(r.str)
    [] OTHER -> Out("UNKNOWN PLATFORM INFO")

\* ------------------------------------------- the printers as a machine
\* The values handed to the scaled printers: 32-bit and 64-bit values
\* built from a few base-1024 digits, and some decimal round numbers.
Values32 ==
  {Trim(<<a, b, c, d>>) : a \in {0, 1, 128, 1023}, b \in {0, 1, 1023},
                          c \in {0, 1, 1023}, d \in {0, 1, 3}}
Values64 ==
  {Trim(<<a, a, b, c, d, e, f>>) : a \in {0, 1023}, b \in {0, 1023},
      c \in {0, 1023}, d \in {0, 1023}, e \in {0, 1, 1023}, f \in {0, 1, 15}}
ValuesHertz ==
  {UInt(n) : n \in {0, 1, 999, 1000, 1005, 1125, 1999, 999999, 1000000,
                    2000000}}

\* A dispatch function about to run on the buffer b a query returned.
\* The buffer is kept as the printers read it: `value` when it is cast to
\* an unsigned integer, `raw` to a bitfield or an enumeration, `elems` to
\* an array, `str` to a string.
NewPR(fn, info, b) ==
  [active |-> TRUE, fn |-> fn, info |-> info, value |-> b.value,
   raw |-> b.raw, elems |-> b.elems, str |-> b.str, size |-> b.size,
   done |-> FALSE, out |-> "", i |-> 0, ub |-> FALSE, crashed |-> FALSE]

\* The printer has run with result r.  Handing NULL to a %s conversion is
\* undefined: the text comes out with "(null)" in its place, or the
\* program stops before printing anything.
Printed(r) ==
  /\ \E crashed \in (IF r.ub THEN BOOLEAN ELSE {FALSE}) :
       pr' = [pr EXCEPT !.done = TRUE, !.i = r.i, !.ub = r.ub,
                        !.crashed = crashed,
                        !.out = IF crashed THEN "" ELSE r.out]
  /\ UNCHANGED <<pc, stack, calls, heap, q, pb, cp, ld, sv, dp, pi, ga>>

Running(fn) == pr.active /\ pr.fn = fn /\ ~pr.done

\* What a nested query for a name returns: NULL, or the name.
NoName == [null |-> TRUE, s |-> <<>>]
NestedNames ==
  {NoName, [null |-> FALSE, s |-> <<NUL>>],
   [null |-> FALSE, s |-> <<"G", "P", "U", NUL>>]}

deviceInfo_typedPrint ==
  /\ Running("clut_deviceInfo_typedPrint")
  /\ \E nested \in NestedNames :
       /\ pr.info \notin {"CL_DEVICE_PARENT_DEVICE", "CL_DEVICE_PLATFORM"}
            => nested = NoName
       /\ Printed(clut_deviceInfo_typedPrint(pr.info, pr, nested))

platformInfo_typedPrint ==
  /\ Running("clut_platformInfo_typedPrint")
  /\ Printed(clut_platformInfo_typedPrint(pr.info, pr))

\* The arrays handed to the vector printers.
Vectors ==
  {<<>>, <<0>>, <<64>>, <<1024, 1024, 64>>,
   <<CL.CL_DEVICE_PARTITION_EQUALLY>>,
   <<CL.CL_DEVICE_PARTITION_BY_COUNTS,
     CL.CL_DEVICE_PARTITION_BY_AFFINITY_DOMAIN, 7>>}
\* The buffers handed to the dispatch functions, as each printer reads
\* them: all bytes zero, and some that are not.
Buffers ==
  {[value |-> <<>>, raw |-> 0, elems |-> <<0>>, str |-> <<NUL>>,
    size |-> 8],
   [value |-> <<1>>, raw |-> 1, elems |-> <<1>>,
    str |-> <<"a", NUL>>, size |-> 8],
   [value |-> <<0, 0, 2>>, raw |-> 6,
    elems |-> <<CL.CL_DEVICE_PARTITION_EQUALLY,
                CL.CL_DEVICE_PARTITION_BY_AFFINITY_DOMAIN>>,
    str |-> <<"F", "U", "L", "L", "_", "P", "R", "O", "F", "I", "L", "E",
              NUL>>, size |-> 16]}
\* The infos handed to the dispatch functions: the listed ones, the ones
\* only the switch names, and one neither knows.
DispatchInfos(list) ==
  {list[j] : j \in DOMAIN list}
  \cup {"CL_DEVICE_PARENT_DEVICE", "CL_DEVICE_HALF_FP_CONFIG",
        "CL_DEVICE_EXTENSIONS", "CL_PLATFORM_EXTENSIONS", "0"}

\* The raw bitfields handed to the bitfield printers: every combination of
\* the flags of the table and of one bit the table does not hold.
RawBitfields(table) == 0 .. (2 * table[Len(table)] * 2 - 1)

\* The buffers the platform hands back for an info, by the type the
\* OpenCL standard gives the info.
Buffer(value, raw, elems, size) ==
  [value |-> value, raw |-> raw, elems |-> elems, str |-> <<NUL>>,
   size |-> size]

PrInputs ==
  {NewPR("clut_deviceInfo_typedPrint", info, Buffer(v, 0, <<>>, 4)) :
     info \in {"CL_DEVICE_GLOBAL_MEM_CACHELINE_SIZE",
               "CL_DEVICE_MAX_MEM_ALLOC_SIZE"}, v \in Values32}
  \cup {NewPR("clut_deviceInfo_typedPrint", "CL_DEVICE_MAX_CLOCK_FREQUENCY",
              Buffer(v, 0, <<>>, 4)) : v \in Values32 \cup ValuesHertz}
  \cup {NewPR("clut_deviceInfo_typedPrint", info, Buffer(v, 0, <<>>, 8)) :
          info \in {"CL_DEVICE_GLOBAL_MEM_SIZE", "CL_DEVICE_LOCAL_MEM_SIZE"},
          v \in Values32 \cup Values64}
  \cup {NewPR("clut_deviceInfo_typedPrint",
              "CL_DEVICE_PARTITION_AFFINITY_DOMAIN", Buffer(<<>>, v, <<>>, 8)) :
          v \in RawBitfields(cl_device_affinity_domains)}
  \cup {NewPR("clut_deviceInfo_typedPrint",
              "CL_DEVICE_EXECUTION_CAPABILITIES", Buffer(<<>>, v, <<>>, 8)) :
          v \in RawBitfields(cl_device_exec_capabilities_array)}
  \cup {NewPR("clut_deviceInfo_typedPrint", "CL_DEVICE_QUEUE_PROPERTIES",
              Buffer(<<>>, v, <<>>, 8)) :
          v \in RawBitfields(cl_command_queue_properties_array)}
  \cup {NewPR("clut_deviceInfo_typedPrint", info, Buffer(<<>>, v, <<>>, 8)) :
          info \in {"CL_DEVICE_SINGLE_FP_CONFIG",
                    "CL_DEVICE_DOUBLE_FP_CONFIG"},
          v \in 0 .. (4 * CL.CL_FP_CORRECTLY_ROUNDED_DIVIDE_SQRT - 1)}
  \cup {NewPR("clut_deviceInfo_typedPrint", info, Buffer(<<>>, 0, v,
                     sizeof_element * Len(v) + rem)) :
          info \in {"CL_DEVICE_MAX_WORK_ITEM_SIZES",
                    "CL_DEVICE_PARTITION_PROPERTIES"},
          v \in Vectors, rem \in 0 .. (sizeof_element - 1)}
  \cup {NewPR("clut_deviceInfo_typedPrint", info, b) :
          info \in DispatchInfos(device_infos), b \in Buffers}
  \cup {NewPR("clut_platformInfo_typedPrint", info, b) :
          info \in DispatchInfos(platform_infos), b \in Buffers}

PrInit ==
  /\ pc = "idle" /\ stack = <<>> /\ calls = <<>> /\ heap = <<>>
  /\ q = InitQ /\ pb = InitPB /\ cp = InitCP /\ ld = InitLD /\ sv = InitSV
  /\ dp = InitDP /\ pi = InitPI /\ ga = InitGA
  /\ pr \in PrInputs

PrNext ==
  \/ deviceInfo_typedPrint
  \/ platformInfo_typedPrint

PrSpec == PrInit /\ [][PrNext]_vars

\* ------------------------- clut_printDeviceInfos, clut_printPlatformInfos
\* ARRAY_LEN of an info list, cut to the handles that are printed here.
pi_len(list) == IF Len(list) < MaxInfos THEN Len(list) ELSE MaxInfos
\* The frame at entry.  `printed` holds, for each call of the single info
\* printer made so far, its info and its local `result`.
NewPI(fn, query, list) ==
  [active |-> TRUE, fn |-> fn, query |-> query, list |-> list, i |-> 0,
   printed |-> <<>>, returned |-> FALSE]
\* The bytes a successful query of `size` bytes returned, as the printers
\* read them.
ResultBuffers(size) ==
  {[b EXCEPT !.size = size,
             !.elems = SubSeq(b.elems, 1, array_len(size))] :
     b \in {b \in Buffers : Len(b.elems) >= array_len(size)}}
\* Faulty variant: the result is not freed.
pi_free_leak(s, result) == s
\* free(result)
pi_free(s, result) == Free(s, result)
\* The typed print of the single info printer.
pi_typedPrint(fn, info, b, nested) ==
  IF fn = "clut_printDeviceInfos"
  THEN clut_deviceInfo_typedPrint(info, b, nested)
  ELSE clut_platformInfo_typedPrint(info, b)

pi_call ==
  /\ Idle
  /\ \/ pi' = NewPI("clut_printDeviceInfos", "clut_getDeviceInfo",
                    device_infos)
     \/ pi' = NewPI("clut_printPlatformInfos", "clut_getPlatformInfo",
                    platform_infos)
  /\ pc' = "pi_loop"
  /\ stack' = <<>> /\ calls' = <<>> /\ heap' = <<>>
  /\ q' = InitQ /\ pb' = InitPB /\ cp' = InitCP /\ ld' = InitLD
  /\ sv' = InitSV /\ dp' = InitDP /\ pr' = InitPR /\ ga' = InitGA

\* The loop head, and the query the single info printer starts with.
pi_loop ==
  /\ pc = "pi_loop"
  /\ IF pi.i < pi_len(pi.list)
     THEN /\ q' = [NewQ(pi.query, TRUE, 0, calls, heap)
                     EXCEPT !.info = pi.list[pi.i + 1]]
          /\ pi' = [pi EXCEPT !.printed =
                       Append(@, [info |-> pi.list[pi.i + 1],
                                  result |-> NULL])]
          /\ pc' = IF pi.query = "clut_getDeviceInfo" THEN "gdi_probe"
                   ELSE "gpi_probe"
          /\ stack' = <<"pi_print">> \o stack
     ELSE /\ pi' = [pi EXCEPT !.returned = TRUE]
          /\ pc' = RetPc /\ stack' = RetStack
          /\ UNCHANGED q
  /\ UNCHANGED <<calls, heap, pb, cp, ld, sv, dp, pr, ga>>

\* The query has returned: the pair is printed and the result freed, or
\* the failure is reported; the query's frame is gone.
pi_print ==
  /\ pc = "pi_print"
  /\ LET info == pi.list[pi.i + 1]
         result == q.retval
     IN /\ IF NULL # result
           THEN \E b \in ResultBuffers(q.out[1]), nested \in NestedNames :
                  /\ info \notin {"CL_DEVICE_PARENT_DEVICE",
                                  "CL_DEVICE_PLATFORM"}
                       => nested = NoName
                  /\ LET text == pi_typedPrint(pi.fn, info, b, nested).out
                         s1 == [h |-> heap,
                                c |-> Event(calls, "printf", CL_SUCCESS,
                                            [info |-> info, text |-> text])]
                     IN /\ heap' = pi_free(s1, result).h
                        /\ calls' = pi_free(s1, result).c
           ELSE /\ calls' = Event(calls, "Debug_out", CL_SUCCESS,
                                  [info |-> info])
                /\ UNCHANGED heap
        /\ pi' = [pi EXCEPT !.printed[pi.i + 1].result = result,
                            !.i = pi.i + 1]
  /\ q' = InitQ
  /\ pc' = "pi_loop"
  /\ UNCHANGED <<stack, pb, cp, ld, sv, dp, pr, ga>>

clut_printInfos == pi_call \/ pi_loop \/ pi_print

\* ----- clut_info_print_CL_DEVICE_NAME_from_ID, ..._PLATFORM_NAME_from_ID
FromIDPrinters ==
  {"clut_info_print_CL_DEVICE_NAME_from_ID",
   "clut_info_print_CL_PLATFORM_NAME_from_ID"}
\* The frame of a name printer: `result` is its local, `str` the name the
\* query read, `base` where its own calls start in the log.
NewFromID(fn) ==
  [active |-> TRUE, fn |-> fn, result |-> NULL, str |-> <<>>, base |-> 0,
   out |-> "", done |-> FALSE]
\* The name of res_size bytes the platform writes, its closing NUL included.
NameBytes(res_size) ==
  [j \in 1..res_size |-> IF j = res_size THEN NUL ELSE "G"]
\* Faulty variant: the nested buffer is not freed.
fromID_free_leak(s, result) == s
\* free(result)
fromID_free(s, result) == Free(s, result)

\* The printer starts with the nested query for the name, its size
\* pointer NULL.
fromID_call ==
  /\ Idle
  /\ \E fn \in FromIDPrinters :
       LET device == fn = "clut_info_print_CL_DEVICE_NAME_from_ID"
       IN /\ pr' = NewFromID(fn)
          /\ q' = [NewQ(IF device THEN "clut_getDeviceInfo"
                        ELSE "clut_getPlatformInfo", FALSE, 0, <<>>, <<>>)
                     EXCEPT !.info = IF device THEN "CL_DEVICE_NAME"
                                     ELSE "CL_PLATFORM_NAME"]
          /\ pc' = IF device THEN "gdi_probe" ELSE "gpi_probe"
  /\ stack' = <<"fromID_print">> /\ calls' = <<>> /\ heap' = <<>>
  /\ pb' = InitPB /\ cp' = InitCP /\ ld' = InitLD /\ sv' = InitSV
  /\ dp' = InitDP /\ pi' = InitPI /\ ga' = InitGA

\* The query has returned: the name is printed and the buffer freed, or
\* "N.A." is printed.
fromID_print ==
  /\ pc = "fromID_print"
  /\ LET result == q.retval
         name == IF NULL # result THEN NameBytes(q.res_size) ELSE <<>>
         r == [null |-> NULL = result, s |-> name]
         text == IF pr.fn = "clut_info_print_CL_DEVICE_NAME_from_ID"
                 THEN clut_info_print_CL_DEVICE_NAME_from_ID(r).out
                 ELSE clut_info_print_CL_PLATFORM_NAME_from_ID(r).out
         s1 == [h |-> heap,
                c |-> Event(calls, "printf", CL_SUCCESS,
                            [info |-> q.info, text |-> text])]
     IN /\ IF NULL # result
           THEN /\ heap' = fromID_free(s1, result).h
                /\ calls' = fromID_free(s1, result).c
           ELSE /\ heap' = s1.h
                /\ calls' = s1.c
        /\ pr' = [pr EXCEPT !.result = result, !.str = name,
                            !.base = Len(calls), !.out = text,
                            !.done = TRUE]
  /\ q' = InitQ
  /\ pc' = RetPc /\ stack' = RetStack
  /\ UNCHANGED <<pb, cp, ld, sv, dp, pi, ga>>

clut_info_print_NAME_from_ID == fromID_call \/ fromID_print

\* ---------------------------- clut_getAllPlatforms, clut_getAllDevices
\* The numbers of platforms or devices the platform may report.
Counts == 0..MaxDevices
\* The frame at entry: n_p says whether the caller's count pointer (n_p,
\* n_d) is non-null; n and n_check are n_platforms / n_devices and their
\* _check; array is platforms / devices; out is what was stored through
\* the caller's pointer.
NewGA(fn, api, n_p) ==
  [active |-> TRUE, fn |-> fn, api |-> api, n_p |-> n_p, ret |-> CL_SUCCESS,
   n |-> 0, n_check |-> 0, array |-> NULL, out |-> <<>>,
   returned |-> FALSE, retval |-> NULL]
\* Faulty variant: only a fill that reports fewer entries is a mismatch.
ga_countChanged_fewer(n, n_check) == n_check < n
\* n_platforms_check != n_platforms, n_devices_check != n_devices
ga_countChanged(n, n_check) == n_check # n
\* clean: free(platforms), free(devices)
ga_clean(s, array) == Free(s, array)

ga_call ==
  /\ Idle
  /\ \E n_p \in BOOLEAN :
       \/ ga' = NewGA("clut_getAllPlatforms", "clGetPlatformIDs", n_p)
       \/ ga' = NewGA("clut_getAllDevices", "clGetDeviceIDs", n_p)
  /\ pc' = "ga_count"
  /\ stack' = <<>> /\ calls' = <<>> /\ heap' = <<>>
  /\ q' = InitQ /\ pb' = InitPB /\ cp' = InitCP /\ ld' = InitLD
  /\ sv' = InitSV /\ dp' = InitDP /\ pi' = InitPI /\ pr' = InitPR

\* The count call, with no array, and the test for an empty answer.
ga_count ==
  /\ pc = "ga_count"
  /\ \E st \in Statuses, n \in Counts :
       /\ calls' = Event(calls, ga.api, st,
                         [num_entries |-> 0, buf |-> NULL])
       /\ IF ~clut_returnSuccess(st)
          THEN /\ ga' = [ga EXCEPT !.ret = st, !.returned = TRUE]
               /\ pc' = RetPc /\ stack' = RetStack
          ELSE IF 0 = n
          THEN /\ ga' = [ga EXCEPT !.ret = st, !.n = n, !.returned = TRUE]
               /\ pc' = RetPc /\ stack' = RetStack
          ELSE /\ ga' = [ga EXCEPT !.ret = st, !.n = n]
               /\ pc' = "ga_alloc" /\ UNCHANGED stack
  /\ UNCHANGED <<heap, q, pb, cp, ld, sv, dp, pi, pr>>

ga_alloc ==
  /\ pc = "ga_alloc"
  /\ \E ok \in BOOLEAN :
       IF ~ok
       THEN /\ ga' = [ga EXCEPT !.returned = TRUE]
            /\ pc' = RetPc /\ stack' = RetStack
            /\ UNCHANGED heap
       ELSE /\ heap' = Acquire(heap, "calloc", ga.fn)
            /\ ga' = [ga EXCEPT !.array = Len(heap) + 1]
            /\ pc' = "ga_fill" /\ UNCHANGED stack
  /\ UNCHANGED <<calls, q, pb, cp, ld, sv, dp, pi, pr>>

\* The fill call, the comparison of the two counts and the return.
ga_fill ==
  /\ pc = "ga_fill"
  /\ \E st \in Statuses, n \in Counts :
       LET s1 == [h |-> heap,
                  c |-> Event(calls, ga.api, st,
                              [num_entries |-> ga.n, buf |-> ga.array])]
       IN IF ~clut_returnSuccess(st)
          THEN /\ heap' = ga_clean(s1, ga.array).h
               /\ calls' = ga_clean(s1, ga.array).c
               /\ ga' = [ga EXCEPT !.ret = st, !.returned = TRUE]
          ELSE IF ga_countChanged(ga.n, n)
          THEN /\ heap' = ga_clean(s1, ga.array).h
               /\ calls' = ga_clean(s1, ga.array).c
               /\ ga' = [ga EXCEPT !.ret = st, !.n_check = n,
                                   !.returned = TRUE]
          ELSE /\ heap' = s1.h
               /\ calls' = s1.c
               /\ ga' = [ga EXCEPT !.ret = st, !.n_check = n,
                                   !.out = IF ga.n_p THEN <<ga.n>> ELSE <<>>,
                                   !.returned = TRUE, !.retval = ga.array]
  /\ pc' = RetPc /\ stack' = RetStack
  /\ UNCHANGED <<q, pb, cp, ld, sv, dp, pi, pr>>

clut_getAll == ga_call \/ ga_count \/ ga_alloc \/ ga_fill

Next ==
  \/ clut_getDeviceInfo
  \/ clut_getPlatformInfo
  \/ clut_printProgramBuildLog
  \/ clut_printDeviceProgramBuildLog
  \/ clut_createProgramFromFile
  \/ clut_loadImageFromFile
  \/ clut_saveImageToFile
  \/ clut_getDuplicateEmptyImage
  \/ clut_printInfos
  \/ clut_info_print_NAME_from_ID
  \/ clut_getAll

Spec == Init /\ [][Next]_vars

\* ================================================================ claims
InfoFns == {"clut_getDeviceInfo", "clut_getPlatformInfo"}
QueryFns == InfoFns \cup {"clut_printDeviceProgramBuildLog"}
QueryApis == {"clGetDeviceInfo", "clGetPlatformInfo", "clGetProgramBuildInfo"}

\* The positions in the log of the platform calls of the current query.
QueryCalls ==
  {i \in DOMAIN calls : i > q.base /\ calls[i].f \in QueryApis}
\* The heap entries the current query allocated.
QueryAllocs ==
  {i \in DOMAIN heap : i > q.hbase /\ heap[i].who = q.fn}
\* The number of events named f in the log.
Count(f) == Cardinality({i \in DOMAIN calls : calls[i].f = f})

\* C1: in clut_getDeviceInfo and clut_getPlatformInfo, when the size probe
\* succeeded with n1 > 0 and the fetch succeeded with a length n2 # n1, the
\* query returns NULL, its buffer has been freed, and the caller's size
\* out-parameter is not written.
C1_SizeMismatchFails ==
  ( /\ q.fn \in InfoFns
    /\ q.returned /\ q.fetched /\ clut_returnSuccess(q.ret)
    /\ q.res_size > 0
    /\ q.res_size_check # q.res_size )
  => ( /\ q.retval = NULL
       /\ q.result # NULL
       /\ heap[q.result].rel = <<"free">>
       /\ q.out = <<>> )

\* The specification's example: n1 = 16, n2 = 12, both calls successful, a
\* caller that passed a size pointer.
C1_Witness ==
  /\ q.fn = "clut_getPlatformInfo"
  /\ q.returned /\ q.fetched /\ clut_returnSuccess(q.ret)
  /\ q.size
  /\ q.res_size = 16 /\ q.res_size_check = 12
  /\ q.retval = NULL

\* C2: in the three queries, a size probe that fails, or that succeeds with
\* n1 = 0, ends the query at once: it has returned (NULL for the two info
\* queries), it allocated nothing, and the probe is the only platform call
\* it made (no fetch, no second probe).
C2_ProbeFailureIsImmediate ==
  ( /\ q.fn \in QueryFns
    /\ q.probed /\ ~q.fetched
    /\ (~clut_returnSuccess(q.ret) \/ q.res_size = 0) )
  => ( /\ q.returned
       /\ q.retval = NULL
       /\ q.result = NULL
       /\ QueryAllocs = {}
       /\ Cardinality(QueryCalls) = 1
       /\ \A i \in QueryCalls : calls[i].a.buf = NULL )

\* A build-log query whose probe succeeded with size 0.
C2_Witness ==
  /\ q.fn = "clut_printDeviceProgramBuildLog"
  /\ q.probed /\ q.returned
  /\ clut_returnSuccess(q.ret) /\ q.res_size = 0

\* C3: a buffer allocated by one of the three queries is never freed twice;
\* while its query runs it is live, and once the query has returned it is
\* either the returned value (only for a successful info query, and then
\* not freed) or freed exactly once.
C3_QueryBufferReturnedOrFreed ==
  \A i \in DOMAIN heap :
    heap[i].who \in QueryFns =>
      IF i = q.result /\ ~q.returned
      THEN heap[i].rel = <<>>
      ELSE IF i = q.retval /\ q.returned
      THEN /\ heap[i].rel = <<>>
           /\ q.fn \in InfoFns
           /\ q.fetched /\ clut_returnSuccess(q.ret)
           /\ q.res_size = q.res_size_check
      ELSE heap[i].rel = <<"free">>

\* An info query that allocated its buffer and then failed in the fetch.
C3_Witness ==
  /\ q.fn = "clut_getDeviceInfo"
  /\ q.returned /\ q.fetched /\ ~clut_returnSuccess(q.ret)
  /\ q.result # NULL /\ q.retval = NULL

\* The positions in the log of the events named f.
At(f) == {i \in DOMAIN calls : calls[i].f = f}
\* The size probes of the build-log query for device d.
LogProbes(d) ==
  {i \in At("clGetProgramBuildInfo") :
     calls[i].a.buf = NULL /\ calls[i].a.device = d}
BuildFailed == cp.active /\ cp.built /\ ~clut_returnSuccess(cp.ret)

\* C4: when clBuildProgram fails in clut_createProgramFromFile, every
\* build-log call precedes the release of the program, which is released at
\* most once; when the function has returned, it returned NULL, the program
\* was released exactly once, and, the device list having been fetched
\* (count and list attributes both answered), the build-log query was made
\* exactly once for each of its n_devices devices and for no other device;
\* with no device list fetched no build-log query was made.
C4_BuildFailureLogsThenReleases ==
  BuildFailed =>
    /\ \A r \in At("clReleaseProgram") :
         \A i \in At("clGetProgramBuildInfo") : i < r
    /\ Cardinality(At("clReleaseProgram")) <= 1
    /\ cp.returned =>
         /\ cp.retval = NULL
         /\ Cardinality(At("clReleaseProgram")) = 1
         /\ \A r \in At("clReleaseProgram") : calls[r].a.p = cp.program
         /\ heap[cp.program].rel = <<"clReleaseProgram">>
         /\ IF pb.listed
            THEN /\ \A d \in 1..pb.n_devices : Cardinality(LogProbes(d)) = 1
                 /\ \A i \in At("clGetProgramBuildInfo") :
                      calls[i].a.device \in 1..pb.n_devices
            ELSE At("clGetProgramBuildInfo") = {}

\* A failed build of a program with two devices, after the return.
C4_Witness ==
  /\ BuildFailed /\ cp.returned
  /\ pb.listed /\ pb.n_devices = 2

\* C5: clut_createProgramFromFile releases nothing it acquired (source
\* list, program handle, options string) before it exits and nothing twice;
\* at every exit the source list and the options string, when acquired,
\* have been released exactly once (Array_free, free); the program handle,
\* when acquired, has been released exactly once on a failure and is live
\* and returned on success; a non-null value is returned only after a
\* successful build.
C5_Acquired == {i \in DOMAIN heap : heap[i].who = "clut_createProgramFromFile"}
C5_EveryExitReleases ==
  cp.active =>
    /\ \A i \in C5_Acquired : Len(heap[i].rel) <= 1
    /\ ~cp.returned => \A i \in C5_Acquired : heap[i].rel = <<>>
    /\ cp.returned =>
         /\ C5_Acquired \subseteq {cp.lines, cp.program, cp.build_options}
         /\ cp.lines # NULL => heap[cp.lines].rel = <<"Array_free">>
         /\ cp.build_options # NULL =>
              heap[cp.build_options].rel = <<"free">>
         /\ cp.program # NULL =>
              IF cp.retval = NULL
              THEN heap[cp.program].rel = <<"clReleaseProgram">>
              ELSE cp.retval = cp.program /\ heap[cp.program].rel = <<>>
         /\ (cp.retval # NULL) <=> (cp.built /\ clut_returnSuccess(cp.ret))

\* The exit taken when the options string cannot be allocated: source list
\* and program are held, the options string is not.
C5_Witness ==
  /\ cp.active /\ cp.returned /\ cp.flags
  /\ cp.lines # NULL /\ cp.program # NULL
  /\ cp.build_options = NULL /\ ~cp.built

\* The host decode buffers of clut_loadImageFromFile.
LdBuffers ==
  {i \in DOMAIN heap : /\ heap[i].who = "clut_loadImageFromFile"
                       /\ heap[i].site \in {"pgm_load", "stbi_load"}}
\* The release that matches a decoder.
MatchingRelease(site) ==
  IF site = "pgm_load" THEN "free" ELSE "stbi_image_free"

\* C6: clut_loadImageFromFile releases every host decode buffer at most
\* once and only with the release matching its decoder; once the function
\* has returned, every decode buffer has been released exactly once; and a
\* forced 4-channel re-decode is preceded by the release of the first
\* buffer.
C6_DecodeBufferReleasedOnce ==
  ld.active =>
    /\ \A i \in LdBuffers :
         \/ heap[i].rel = <<>>
         \/ heap[i].rel = <<MatchingRelease(heap[i].site)>>
    /\ ld.returned =>
         \A i \in LdBuffers :
           heap[i].rel = <<MatchingRelease(heap[i].site)>>
    /\ \A j \in At("stbi_load") :
         calls[j].a.req = 4 =>
           \E k \in At("stbi_image_free") : k < j /\ calls[k].a.p = 1

\* The image creations the load requested (a duplication that follows the
\* load adds its own to the log).
LdCreates ==
  {i \in At("clCreateImage") : dp.active => i <= dp.base}

\* C7: every device image clut_loadImageFromFile requests has channel data
\* type CL_UNSIGNED_INT8 and the decoded width, and its channel order,
\* component count and row pitch follow the decoded channel count: 1 gives
\* CL_R, 1, width; 2 gives CL_RA, 2, width*2; 4 gives CL_RGBA, 4, width*4;
\* 3 gives CL_RGBA, 4, width*4 from the buffer of a second decode of the
\* same file that asked for 4 channels, the first buffer having been
\* released in between; the PGM decoder gives CL_R, 1, width.  With any
\* other channel count no device image is requested and NULL is returned.
C7_ChannelMapping ==
  ld.active =>
    /\ \A i \in LdCreates :
         LET a == calls[i].a
             ch == ld.channel_order
         IN /\ a.type = "CL_UNSIGNED_INT8"
            /\ a.width = ld.l_width /\ a.height = ld.l_height
            /\ a.host = ld.img
            /\ IF ld.is_pgm
               THEN /\ a.order = "CL_R" /\ ld.components = 1
                    /\ a.row_pitch = a.width
               ELSE /\ ch \in {1, 2, 3, 4}
                    /\ ch = 1 => /\ a.order = "CL_R" /\ ld.components = 1
                                 /\ a.row_pitch = a.width
                    /\ ch = 2 => /\ a.order = "CL_RA" /\ ld.components = 2
                                 /\ a.row_pitch = a.width * 2
                    /\ ch = 4 => /\ a.order = "CL_RGBA" /\ ld.components = 4
                                 /\ a.row_pitch = a.width * 4
                    /\ ch = 3 =>
                         /\ a.order = "CL_RGBA" /\ ld.components = 4
                         /\ a.row_pitch = a.width * 4
                         /\ a.host = 2
                         /\ \E j \in At("stbi_load"), k \in At("stbi_image_free"),
                               l \in At("stbi_load") :
                              /\ j < k /\ k < l /\ l < i
                              /\ calls[j].a.req = 0 /\ calls[k].a.p = 1
                              /\ calls[l].a.req = 4 /\ calls[l].a.ok
                              /\ calls[l].a.file = calls[j].a.file
                    /\ ch # 3 => Cardinality(At("stbi_load")) = 1
    /\ (~ld.is_pgm /\ ld.channel_order \notin {0, 1, 2, 3, 4}) =>
         /\ LdCreates = {}
         /\ ld.returned /\ ld.retval = NULL

\* A 3-channel file whose re-decode succeeded and whose image was requested.
C7_Witness ==
  /\ ld.active /\ ld.returned /\ ~ld.is_pgm
  /\ ld.channel_order = 3
  /\ LdCreates # {}

\* C8: when the device image's channel data type is not CL_UNSIGNED_INT8,
\* clut_saveImageToFile has returned having issued no device read,
\* allocated no host buffer and called no encoder.
C8_UnsupportedTypeReadsNothing ==
  ( /\ sv.active
    /\ sv.image_channel_data_type \in ChannelTypes \ {"CL_UNSIGNED_INT8"} )
  => ( /\ sv.returned
       /\ At("clEnqueueReadImage") = {}
       /\ sv.img = NULL
       /\ \A i \in DOMAIN heap : heap[i].who # "clut_saveImageToFile"
       /\ At("stbi_write_png") = {} )

\* A save of an image whose channels are normalized 8-bit.
C8_Witness ==
  /\ sv.active /\ sv.returned
  /\ sv.image_channel_data_type = "CL_UNORM_INT8"

\* The channel orders clut_getImageFormatComponents has a case for.
MappedOrders ==
  {"CL_R", "CL_Rx", "CL_A", "CL_INTENSITY", "CL_LUMINANCE", "CL_RG",
   "CL_RGx", "CL_RA", "CL_RGB", "CL_RGBx", "CL_RGBA"}

\* C9: in clut_saveImageToFile every encoder call comes after a blocking
\* read that reported success and after the clFinish that follows it; a
\* read that reported failure is followed by no encoder call; and every
\* read comes after successful width, height and format queries, with the
\* data type CL_UNSIGNED_INT8 and a channel order that has a component
\* count.
C9_ReadBeforeEncode ==
  sv.active =>
    /\ \A e \in At("stbi_write_png") :
         \E r \in At("clEnqueueReadImage"), w \in At("clFinish") :
           /\ r < w /\ w < e
           /\ clut_returnSuccess(calls[r].st) /\ calls[r].a.blocking
    /\ (\E r \in At("clEnqueueReadImage") : ~clut_returnSuccess(calls[r].st))
         => At("stbi_write_png") = {}
    /\ \A r \in At("clEnqueueReadImage") :
         /\ \A info \in {"CL_IMAGE_WIDTH", "CL_IMAGE_HEIGHT", "CL_IMAGE_FORMAT"} :
              \E g \in At("clGetImageInfo") :
                /\ g < r /\ calls[g].a.info = info
                /\ clut_returnSuccess(calls[g].st)
         /\ sv.image_channel_data_type = "CL_UNSIGNED_INT8"
         /\ sv.image_channel_order \in MappedOrders

\* A save that reached the encoder.
C9_Witness ==
  /\ sv.active /\ sv.returned
  /\ At("stbi_write_png") # {}

\* C10: clut_saveImageToFile calls free at most once; when it has returned
\* with a host buffer allocated (read failure, encoder failure, success)
\* that buffer has been freed exactly once, and when it has returned with
\* none allocated (query failure, unsupported type, unmapped channel order,
\* allocation failure) it has called free not at all.
C10_HostBufferFreedOnce ==
  sv.active =>
    /\ Cardinality(At("free")) <= 1
    /\ \A i \in DOMAIN heap : Len(heap[i].rel) <= 1
    /\ heap[sv.image].rel = <<>>
    /\ sv.returned =>
         IF sv.img # NULL
         THEN /\ heap[sv.img].rel = <<"free">>
              /\ \A i \in At("free") : calls[i].a.p = sv.img
              /\ Cardinality(At("free")) = 1
         ELSE /\ At("free") = {}
              /\ \A i \in DOMAIN heap : heap[i].who # "clut_saveImageToFile"

\* A save whose read failed after the buffer was allocated.
C10_Witness ==
  /\ sv.active /\ sv.returned /\ sv.img # NULL
  /\ \E r \in At("clEnqueueReadImage") : ~clut_returnSuccess(calls[r].st)

\* The positions in the log of the calls named f that the running
\* clut_getDuplicateEmptyImage made.
DupCalls(f) == {i \in DOMAIN calls : i > dp.base /\ calls[i].f = f}
\* The values its successful source-image queries for `info` read.
DupRead(info) ==
  {calls[i].a.value : i \in {j \in DupCalls("clGetImageInfo") :
      clut_returnSuccess(calls[j].st) /\ calls[j].a.info = info}}
DupQueryFailed ==
  \E i \in DupCalls("clGetImageInfo") : ~clut_returnSuccess(calls[i].st)

Decodes == {i \in DOMAIN calls : calls[i].f \in {"pgm_load", "stbi_load"}}
FirstDecode == {i \in Decodes : \A j \in Decodes : i <= j}

\* C12: the load hands the path to the PGM decoder exactly when the path
\* ends with ".pgm", the dot included; every other path, one ending in
\* "pgm" without the dot among them, goes first to the general decoder,
\* asked for the file's own channel count (0 requested).
C12_DotPgmRouting ==
  ld.active =>
    \A i \in FirstDecode :
      /\ calls[i].f = "pgm_load"
           <=> StringUtils_endsWith(calls[i].a.file, <<".", "p", "g", "m">>)
      /\ calls[i].f = "stbi_load" => calls[i].a.req = 0
      /\ calls[i].a.file = ld.filename

\* The default flags: BUILD_OPTS without the space that closes it.
DefaultFlags == SubSeq(BUILD_OPTS, 1, Len(BUILD_OPTS) - 1)

\* C13: the options string handed to clBuildProgram is BUILD_OPTS alone
\* when flags is NULL; otherwise it is the default flags, one space, and
\* the caller's flags unchanged (the space being the one that closes
\* BUILD_OPTS: the default flags themselves do not end in a space).  For
\* every flags string, the empty one included, neither sprintf writes
\* outside the buffer, and the buffer holds a NUL.
C13_BuildOptions ==
  cp.active =>
    /\ BUILD_OPTS = DefaultFlags \o <<" ">>
    /\ DefaultFlags[Len(DefaultFlags)] # " "
    /\ \A i \in At("clBuildProgram") :
         calls[i].a.options =
           IF cp.flags THEN DefaultFlags \o <<" ">> \o cp.flags_str
           ELSE BUILD_OPTS
    /\ cp.build_options # NULL =>
         /\ ~cp.oob
         /\ \E k \in DOMAIN cp.buffer : cp.buffer[k] = NUL
         /\ cp.flags => Len(cp.buffer) = cp_optsSize(cp.flags_str)

\* A build was requested with caller flags of two characters; the last
\* byte of the buffer is the NUL the allocation left.
C13_Witness ==
  /\ cp.active /\ cp.flags /\ At("clBuildProgram") # {}
  /\ Len(cp.flags_str) = 2
  /\ cp.buffer[Len(cp.buffer)] = NUL

\* The value being printed is at least 1024^k.
\* clut_deviceInfo_typedPrint has printed one of the infos.
Through(infos) ==
  /\ pr.active /\ pr.done
  /\ pr.fn = "clut_deviceInfo_typedPrint" /\ pr.info \in infos
\* The infos the dispatch hands to each scaled printer.
UIntBytesInfos ==
  {"CL_DEVICE_GLOBAL_MEM_CACHELINE_SIZE",
   "CL_DEVICE_MAX_CONSTANT_BUFFER_SIZE", "CL_DEVICE_MAX_MEM_ALLOC_SIZE"}
ULongBytesInfos ==
  {"CL_DEVICE_GLOBAL_MEM_CACHE_SIZE", "CL_DEVICE_GLOBAL_MEM_SIZE",
   "CL_DEVICE_LOCAL_MEM_SIZE"}
AtLeastUnit(x, k) == Len(x) > k
\* h hundredths as printed with two decimals.
TwoDecimals(h) ==
  Decimal(DivMod(h, 100).q) \o "."
    \o Digit[DivMod(h, 100).r \div 10 + 1]
    \o Digit[(DivMod(h, 100).r % 10) + 1]
\* The hundredths nearest to x / 1024^k (two of them at a tie): the
\* quotient of 100 * x rounded down unless the remainder exceeds one half,
\* rounded up unless it is less than one half.
NearestHundredths(x, k) ==
  LET p == Mul(x, 100)
      f == ShiftRight(p, 10 * k)
      half == Bit(p, 10 * k - 1) = 1
      more == ~LowZero(p, 10 * k - 1)
  IN {h \in {f, Add(f, 1)} : IF h = f THEN ~(half /\ more) ELSE half}
ByteUnits == <<"KB", "MB", "GB">>

\* C14: clut_info_print_CL_UINT_bytes prints "<n> bytes" for a 32-bit n
\* below 1024, and otherwise "<s> <unit> (<n> bytes)" with the unit the
\* largest of KB, MB, GB that does not exceed n and s the quotient of n by
\* the unit's size at two decimals (a nearest hundredth); 1023, 1024 and
\* 1048576 give "1023 bytes", "1.00 KB (1024 bytes)" and
\* "1.00 MB (1048576 bytes)".
C14_ByteScaling ==
  Through(UIntBytesInfos) =>
    LET n == pr.value
    IN /\ ~pr.ub /\ ~pr.crashed
       /\ ~AtLeastUnit(n, 1) => pr.out = Decimal(n) \o " bytes"
       /\ AtLeastUnit(n, 1) =>
            \E k \in 1..3 :
              /\ AtLeastUnit(n, k)
              /\ k < 3 => ~AtLeastUnit(n, k + 1)
              /\ \E h \in NearestHundredths(n, k) :
                   pr.out = TwoDecimals(h) \o " " \o ByteUnits[k] \o " ("
                              \o Decimal(n) \o " bytes)"
       /\ n = UInt(1023) => pr.out = "1023 bytes"
       /\ n = UInt(1024) => pr.out = "1.00 KB (1024 bytes)"
       /\ n = UInt(1048576) => pr.out = "1.00 MB (1048576 bytes)"

\* 1048576 has been printed.
C14_Witness ==
  /\ Through(UIntBytesInfos)
  /\ pr.value = UInt(1048576)
  /\ pr.out = "1.00 MB (1048576 bytes)"

\* C15: clut_info_print_CL_UINT_hertz prints "999 MHz" for 999 and
\* "1.00 GHz (1000 MHz)" for 1000, and for every value below 1000 the
\* value followed by " MHz", unscaled and without a parenthetical.
C15_FrequencyScaling ==
  Through({"CL_DEVICE_MAX_CLOCK_FREQUENCY"}) =>
    /\ pr.value = UInt(999) => pr.out = "999 MHz"
    /\ pr.value = UInt(1000) => pr.out = "1.00 GHz (1000 MHz)"
    /\ ~Ge(pr.value, 1000) => pr.out = Decimal(pr.value) \o " MHz"

\* C20: for every 64-bit n >= 1024 (those from 1024^6 on included)
\* clut_info_print_CL_ULONG_bytes ends its scaling at an index 0..4, the
\* entries KB, MB, GB, TB, PB of the unit table, and hands no NULL entry
\* to the output.
C20_UnitIndexInTable ==
  (Through(ULongBytesInfos) /\ Ge(pr.value, 1024)) =>
    /\ pr.i \in 0..4
    /\ ~pr.ub

\* Bit k of the unsigned integer n is set.
RECURSIVE HasBit(_, _)
HasBit(n, k) ==
  IF n = 0 THEN FALSE
  ELSE IF k = 0 THEN n % 2 = 1 ELSE HasBit(n \div 2, k - 1)
\* The bitwise AND of a and b is non-zero.
Shares(a, b) == \E k \in 0 .. a : HasBit(a, k) /\ HasBit(b, k)
\* The strings of a sequence, joined by sep.
RECURSIVE Join(_, _)
Join(strs, sep) ==
  IF strs = <<>> THEN ""
  ELSE IF Len(strs) = 1 THEN strs[1]
  ELSE strs[1] \o sep \o Join(Tail(strs), sep)
\* The names, in table order, of the flags of a table that raw shares a
\* bit with.
RECURSIVE FlagNames(_, _, _)
FlagNames(raw, table, names) ==
  IF table = <<>> THEN <<>>
  ELSE (IF Shares(raw, Head(table)) THEN <<Head(names)>> ELSE <<>>)
       \o FlagNames(raw, Tail(table), Tail(names))
\* The bitfield infos: their table and the names of its flags.
FpFlags ==
  [table |-> cl_device_fp_configs_array,
   names |-> <<"denorms", "INF and NaN values", "rounding to nearest",
               "rounding to zero", "rouding to INF", "fused multiply-add",
               "correctly rounded divides and sqrt", "software float ops">>]
BitfieldInfos ==
  [CL_DEVICE_PARTITION_AFFINITY_DOMAIN |->
     [table |-> cl_device_affinity_domains,
      names |-> <<"NUMA", "L4 cache", "L3 cache", "L2 cache", "L1 cache",
                  "Next Partitionable">>],
   CL_DEVICE_EXECUTION_CAPABILITIES |->
     [table |-> cl_device_exec_capabilities_array,
      names |-> <<"OpenCL C kernels", "Native kernels">>],
   CL_DEVICE_QUEUE_PROPERTIES |->
     [table |-> cl_command_queue_properties_array,
      names |-> <<"out of order execution", "profiling">>],
   CL_DEVICE_SINGLE_FP_CONFIG |-> FpFlags,
   CL_DEVICE_DOUBLE_FP_CONFIG |-> FpFlags,
   CL_DEVICE_HALF_FP_CONFIG |-> FpFlags]
BitfieldDone == Through(DOMAIN BitfieldInfos)

\* C16: a bitfield printer (affinity domain, execution capabilities, queue
\* properties, floating-point configuration) given a non-zero raw value
\* prints the names of exactly those flags of its table that share a bit
\* with the raw value, in table order, joined by ", " with no separator
\* before the first or after the last; bits the table does not hold add
\* nothing.  So NUMA|L3 prints "NUMA, L3 cache", and a floating-point
\* value with only an unlisted bit prints nothing.
C16_BitfieldNames ==
  BitfieldDone /\ pr.raw # 0 =>
    /\ ~pr.crashed
    /\ pr.out = Join(FlagNames(pr.raw, BitfieldInfos[pr.info].table,
                               BitfieldInfos[pr.info].names), ", ")
    /\ pr.info = "CL_DEVICE_PARTITION_AFFINITY_DOMAIN" /\ pr.raw = 5
         => pr.out = "NUMA, L3 cache"
    /\ pr.info = "CL_DEVICE_SINGLE_FP_CONFIG" /\ pr.raw = 256
         => pr.out = ""
\* A floating-point configuration with the two highest listed flags and
\* an unlisted bit has been printed: two names in table order.
C16_Witness ==
  /\ BitfieldDone /\ pr.info = "CL_DEVICE_DOUBLE_FP_CONFIG"
  /\ pr.raw = 448
  /\ pr.out = "correctly rounded divides and sqrt, software float ops"

\* C17: a raw value of exactly zero prints a label and not an empty list:
\* "no affinity domain supported" for the affinity domain, the partition
\* table's label for none ("no partition type supported") for
\* CL_DEVICE_PARTITION_TYPE, "no FP capabilities" for the floating-point
\* configurations.
C17_ZeroLabels ==
  /\ Through({"CL_DEVICE_PARTITION_AFFINITY_DOMAIN"}) /\ pr.raw = 0
       => pr.out = "no affinity domain supported"
  /\ Through({"CL_DEVICE_PARTITION_TYPE"}) /\ pr.raw = 0
       => pr.out = "no partition type supported"
  /\ Through({"CL_DEVICE_SINGLE_FP_CONFIG", "CL_DEVICE_DOUBLE_FP_CONFIG",
              "CL_DEVICE_HALF_FP_CONFIG"}) /\ pr.raw = 0
       => pr.out = "no FP capabilities"

\* What the elements of an array print as, for each vector printer.
ElementTexts ==
  [j \in DOMAIN pr.elems |->
     IF pr.info = "CL_DEVICE_MAX_WORK_ITEM_SIZES"
     THEN Decimal(UInt(pr.elems[j]))
     ELSE CASE pr.elems[j] = 0 -> "no partition type supported"
            [] pr.elems[j] = 4230 -> "partition equally"
            [] pr.elems[j] = 4231 -> "partition by counts"
            [] pr.elems[j] = 4232 -> "partition by domain"
            [] OTHER -> "UNKNOWN PARTITION PROPERTY"]
VectorDone ==
  Through({"CL_DEVICE_MAX_WORK_ITEM_SIZES", "CL_DEVICE_PARTITION_PROPERTIES"})

\* C18: the vector printers (max work-item sizes, partition properties)
\* print floor(size / 8) elements, 8 being the width of an element: the
\* elements in index order joined by ", ", nothing for a size below one
\* element, and no element at or beyond a partial trailing remainder is
\* read.
C18_VectorLength ==
  VectorDone =>
    /\ ~pr.ub /\ ~pr.crashed
    /\ pr.i = pr.size \div 8
    /\ pr.i <= Len(pr.elems)
    /\ pr.out = Join(SubSeq(ElementTexts, 1, pr.size \div 8), ", ")
    /\ pr.size < 8 => pr.out = ""
    /\ pr.elems = <<1024, 1024, 64>>
         /\ pr.info = "CL_DEVICE_MAX_WORK_ITEM_SIZES"
         => pr.out = "1024, 1024, 64"
\* Three work-item sizes followed by five further bytes have been printed.
C18_Witness ==
  /\ VectorDone /\ pr.info = "CL_DEVICE_MAX_WORK_ITEM_SIZES"
  /\ pr.elems = <<1024, 1024, 64>> /\ pr.size = 29
  /\ pr.out = "1024, 1024, 64"

\* The handles a print-all function goes through: the leading MaxInfos of
\* its list.
Handles ==
  SubSeq(pi.list, 1, IF Len(pi.list) < MaxInfos THEN Len(pi.list)
                     ELSE MaxInfos)
InfosOf(seq) == [k \in DOMAIN seq |-> seq[k].info]
IsPair(ev) == ev.f = "printf"
HasResult(p) == p.result # NULL
\* The infos of the name/value pairs printed so far, in the order printed.
PairsPrinted == [k \in DOMAIN SelectSeq(calls, IsPair) |->
                   SelectSeq(calls, IsPair)[k].a.info]
\* A query started by the single info printer has not been consumed yet.
PiQuerying == pi.active /\ pc \notin {"pi_loop", "done"}

C21_HertzIndexInTable ==
  Through({"CL_DEVICE_MAX_CLOCK_FREQUENCY"}) =>
    /\ pr.i \in 0..1
    /\ ~pr.ub

\* A dispatch function has printed.
Dispatched(fn) == pr.active /\ pr.done /\ pr.fn = fn
Listed(list) == {list[j] : j \in DOMAIN list}

\* C22: the dispatch decodes every handle of the print-all lists: a
\* handle of device_infos prints neither "UNKNOWN DEVICE INFO" nor the
\* placeholder "[PRINT NOT IMPLEMENTED]", a handle of platform_infos does
\* not print "UNKNOWN PLATFORM INFO"; and a handle the dispatch does not
\* name prints the unknown marker whatever the value bytes are.
C22_DispatchTotal ==
  /\ Dispatched("clut_deviceInfo_typedPrint") =>
       /\ pr.info \in Listed(device_infos) =>
            pr.out \notin {"UNKNOWN DEVICE INFO", "[PRINT NOT IMPLEMENTED]"}
       /\ pr.info \in {"0", "CL_PLATFORM_EXTENSIONS"} =>
            pr.out = "UNKNOWN DEVICE INFO" /\ ~pr.ub
  /\ Dispatched("clut_platformInfo_typedPrint") =>
       /\ pr.info \in Listed(platform_infos) =>
            pr.out # "UNKNOWN PLATFORM INFO"
       /\ pr.info \in {"0", "CL_DEVICE_PARENT_DEVICE", "CL_DEVICE_EXTENSIONS",
                       "CL_DEVICE_HALF_FP_CONFIG"} =>
            pr.out = "UNKNOWN PLATFORM INFO" /\ ~pr.ub

\* The tokenizer was called and failed (ok false), or yielded no fragment.
ParseFailed ==
  /\ cp.active
  /\ \E i \in At("parseLines_array") : ~calls[i].a.ok
NoFragments ==
  /\ cp.active /\ cp.lines # NULL /\ cp.nlines = 0

\* C23: clut_createProgramFromFile fails at the tokenization step both
\* when the tokenizer fails and when it yields an empty list of source
\* fragments: it returns NULL at once and never asks the platform to
\* create a program.
C23_TokenizeFailureStops ==
  (ParseFailed \/ NoFragments) =>
    /\ cp.returned /\ cp.retval = NULL
    /\ At("clCreateProgramWithSource") = {}

\* C28: in clut_createProgramFromFile every clReleaseProgram call is for
\* a non-null handle that clCreateProgramWithSource returned with a
\* success status.
C28_ReleaseOnlyCreated ==
  cp.active =>
    \A i \in At("clReleaseProgram") :
      /\ calls[i].a.p # NULL
      /\ \E j \in At("clCreateProgramWithSource") :
           /\ j < i
           /\ clut_returnSuccess(calls[j].st)
           /\ calls[j].a.p = calls[i].a.p


\* The bytes of one row, and of the whole image, of n components a pixel.
RowBytes(width, height, n) == width * n
ImageBytes(width, height, n) == width * height * n
\* The save of an image whose channel order is the one load assigns to a
\* decoded count n works with n components; Bytes is the size of its
\* host buffer.  An order without a component count stops the save.
SaveLayout(Bytes(_, _, _)) ==
  /\ \A n \in {1, 2, 4} :
       clut_getImageFormatComponents(ld_format(n).order) = n
  /\ \A n \in {1, 2, 4} :
       ( /\ sv.active
         /\ sv.image_channel_data_type = "CL_UNSIGNED_INT8"
         /\ sv.image_channel_order = ld_format(n).order ) =>
         /\ sv.components = n
         /\ sv.img # NULL =>
              sv.nmemb * sv.size = Bytes(sv.width, sv.height, n)
         /\ \A r \in At("clEnqueueReadImage") :
              calls[r].a.row_pitch = sv.width * n
         /\ \A e \in At("stbi_write_png") :
              /\ calls[e].a.comp = n
              /\ calls[e].a.stride = sv.width * n
  /\ ( /\ sv.active
       /\ sv.image_channel_data_type = "CL_UNSIGNED_INT8"
       /\ sv.image_channel_order \in ChannelOrders \ MappedOrders ) =>
       /\ sv.returned /\ sv.img = NULL
       /\ \A i \in DOMAIN heap : heap[i].who # "clut_saveImageToFile"
       /\ At("clEnqueueReadImage") = {}

\* C24: clut_saveImageToFile derives the component count from the channel
\* order with a mapping that agrees with load: for n in {1, 2, 4} the
\* count derived from the order load assigns to n is n, and the buffer
\* size, the row pitch of the read and the row stride of the encoder are
\* all width*n; an order with no mapping stops the save before the
\* allocation and before any read.
C24_SaveMappingAgrees == SaveLayout(RowBytes)

\* C24, amended: as above, the host buffer holding width*height*n bytes
\* (all rows of the image), the row pitch and the row stride width*n.
C24_SaveBufferHoldsImage == SaveLayout(ImageBytes)

\* A two-row CL_RA image went through the read to the encoder.
C24_Witness ==
  /\ sv.active /\ sv.returned
  /\ sv.image_channel_order = "CL_RA" /\ sv.height = 2 /\ sv.width = 2
  /\ At("stbi_write_png") # {}

LdPlatformCalls ==
  {i \in DOMAIN calls :
     /\ calls[i].f \in {"clCreateImage", "clGetImageInfo"}
     /\ dp.active => i <= dp.base}

\* C29: clut_loadImageFromFile returns a non-null image only when every
\* platform call it made succeeded, and then it has stored the decoded
\* width and height through each non-null out-pointer; when the image
\* creation or the element-size query fails it returns NULL and writes
\* neither width nor height.
C29_LoadAllOrNothing ==
  (ld.active /\ ld.returned) =>
    /\ ld.retval # NULL =>
         /\ \A i \in LdPlatformCalls : clut_returnSuccess(calls[i].st)
         /\ ld.wOut = IF ld.width THEN <<ld.l_width>> ELSE <<>>
         /\ ld.hOut = IF ld.height THEN <<ld.l_height>> ELSE <<>>
    /\ (\E i \in LdPlatformCalls : ~clut_returnSuccess(calls[i].st)) =>
         /\ ld.retval = NULL
         /\ ld.wOut = <<>> /\ ld.hOut = <<>>

\* C30: called with a null path, clut_loadImageFromFile and
\* clut_saveImageToFile return at once, as clut_createProgramFromFile
\* does, having made no call at all: no suffix test, decode, platform
\* query, device read or encoder call.
C30_NullPathFailsAtOnce ==
  /\ (cp.active /\ ~cp.file) =>
       /\ cp.returned /\ cp.retval = NULL /\ calls = <<>>
  /\ (ld.active /\ ~ld.path) =>
       /\ ld.returned /\ ld.retval = NULL /\ calls = <<>>
  /\ (sv.active /\ ~sv.path) =>
       /\ sv.returned /\ At("stbi_write_png") = {}
       /\ At("clGetImageInfo") = {} /\ At("clEnqueueReadImage") = {}


\* The calls of a name printer's nested query, and the printer's own.
FromIDQueries ==
  {i \in DOMAIN calls : i <= pr.base /\ calls[i].f \in QueryApis}
FromIDOwn == {i \in DOMAIN calls : i > pr.base}

\* C26: a name printer issues exactly one nested query, for the name of
\* the device or platform; when the query fails it prints "N.A." and
\* frees nothing; when it succeeds it prints the name as a string and
\* frees the buffer of the query exactly once.
C26_NestedNameQuery ==
  (pr.active /\ pr.done) =>
    /\ Cardinality({i \in FromIDQueries : calls[i].a.buf = NULL}) = 1
    /\ Cardinality({i \in FromIDQueries : calls[i].a.buf # NULL}) <= 1
    /\ \A i \in FromIDQueries :
         calls[i].f =
           IF pr.fn = "clut_info_print_CL_DEVICE_NAME_from_ID"
           THEN "clGetDeviceInfo" ELSE "clGetPlatformInfo"
    /\ \E i \in FromIDOwn :
         /\ calls[i].f = "printf" /\ calls[i].a.text = pr.out
         /\ calls[i].a.info \in {"CL_DEVICE_NAME", "CL_PLATFORM_NAME"}
         /\ \A j \in FromIDOwn : calls[j].f = "printf" => j = i
    /\ IF pr.result = NULL
       THEN /\ pr.out = "N.A."
            /\ \A i \in FromIDOwn : calls[i].f # "free"
            /\ \A i \in DOMAIN heap : heap[i].rel = <<"free">>
       ELSE /\ pr.out = clut_info_print_String(pr.str).out
            /\ Cardinality({i \in FromIDOwn : calls[i].f = "free"}) = 1
            /\ \A i \in At("free") : i \in FromIDOwn /\ calls[i].a.p = pr.result
            /\ heap[pr.result].rel = <<"free">>

\* A name printer printed the name its query read and freed the buffer.
C26_Witness ==
  /\ pr.active /\ pr.done /\ pr.result # NULL
  /\ pr.out = "G"


\* The count call and the fill call of the running clut_getAll* in the log.
GaCount == {i \in At(ga.api) : calls[i].a.buf = NULL}
GaFill == {i \in At(ga.api) : calls[i].a.buf # NULL}

\* C27: clut_getAllPlatforms and clut_getAllDevices return a non-null
\* array only when the count call succeeded with a count above zero, the
\* fill call succeeded and reported the same count; in every other case
\* they return NULL, have freed the array they allocated, if any, exactly
\* once, and have stored nothing through the caller's count pointer.
C27_AllOrNull ==
  (ga.active /\ ga.returned) =>
    IF /\ \E i \in GaCount : clut_returnSuccess(calls[i].st)
       /\ ga.n > 0
       /\ \E i \in GaFill : clut_returnSuccess(calls[i].st)
       /\ ga.n_check = ga.n
    THEN /\ ga.retval # NULL /\ ga.retval = ga.array
         /\ heap[ga.array].rel = <<>>
         /\ ga.out = IF ga.n_p THEN <<ga.n>> ELSE <<>>
    ELSE /\ ga.retval = NULL
         /\ ga.out = <<>>
         /\ \A i \in DOMAIN heap : heap[i].rel = <<"free">>
         /\ Cardinality(At("free")) = Len(heap)
         /\ \A i \in At("free") : calls[i].a.p = ga.array

\* A fill that succeeded with more entries than were counted.
C27_Witness ==
  /\ ga.active /\ ga.returned
  /\ ga.array # NULL /\ ga.n_check > ga.n
  /\ \A i \in GaFill : clut_returnSuccess(calls[i].st)

====
